---- MODULE Spec2Model ----
(***************************************************************************)
(* RoWheel: the calibration wizard (src/calibration.rs) and the           *)
(* calibration profile (src/config.rs).                                    *)
(*                                                                         *)
(* Raw axis values are f32 in the source.  They are modelled as integers   *)
(* in units of 1/2000, so that the movement threshold 0.1 is 200 and the   *)
(* degenerate-range epsilon 0.001 is 2.  The results of normalize and      *)
(* normalize_trigger are exact rationals <<n, d>> with d > 0 in lowest     *)
(* terms.                                                                  *)
(***************************************************************************)
EXTENDS Integers, Sequences, FiniteSets, TLC

\* ---------------------------------------------------------------- bounds
\* process_event calls accepted over one run of the wizard
MaxEvents == 4

\* ------------------------------------------------------ program constants
\* calibration.rs:155  a.movement() > 0.1
MovementThreshold == 200
\* config.rs:26, config.rs:41  range.abs() < 0.001
Epsilon == 2

\* ------------------------------------------------------------ input sets
\* (device_id, axis_code) pairs that raw AxisMoved events can name
Keys == {<<"wheel", 0>>, <<"pedals", 1>>}
\* raw axis values: 0.0, 0.0005, 0.8
Values == {0, 1, 1600}
\* (device_id, button_code) pairs of ButtonPressed / ButtonReleased events
Buttons == {<<"wheel", 4>>, <<"wheel", 5>>}

DeviceName(d) == IF d = "wheel" THEN "Wheel" ELSE "Pedals"

\* Option<T>: None is the empty sequence, Some(x) the one-element sequence
None == <<>>
Some(x) == <<x>>

Abs(x) == IF x < 0 THEN -x ELSE x

\* --------------------------------------------------------------- config.rs
AxisBinding(d, a, lo, hi, inv) ==
    [device_id |-> d, device_name |-> DeviceName(d), axis_code |-> a,
     min_value |-> lo, max_value |-> hi, inverted |-> inv]

ButtonBinding(d, b) ==
    [device_id |-> d, device_name |-> DeviceName(d), button_code |-> b]

\* WheelConfig::default()
DefaultConfig ==
    [steering |-> None, throttle |-> None, brake |-> None, clutch |-> None,
     shift_up |-> None, shift_down |-> None, force_feedback_device |-> None]

RECURSIVE GCD(_, _)
GCD(a, b) == IF b = 0 THEN a ELSE GCD(b, a % b)

\* the rational n/d (d # 0) in lowest terms with a positive denominator
Rat(n, d) ==
    LET g == GCD(Abs(n), Abs(d))
        s == IF d < 0 THEN -1 ELSE 1
    IN  <<(s * n) \div g, (s * d) \div g>>

RatLess(p, q) == p[1] * q[2] < q[1] * p[2]

\* a clamp that lets every value through
clamp_passes(p, lo, hi) == p

\* f32::clamp(lo, hi)
Clamp(p, lo, hi) == IF RatLess(p, lo) THEN lo ELSE IF RatLess(hi, p) THEN hi ELSE p

RatNeg(p) == <<-p[1], p[2]>>
RatOneMinus(p) == <<p[2] - p[1], p[2]>>

\* normalize without the final sign flip of an inverted binding
normalize_uninverted(b, raw_value) ==
    LET range == b.max_value - b.min_value IN
    IF Abs(range) < Epsilon THEN <<0, 1>>
    ELSE Clamp(Rat(2 * (raw_value - b.min_value) - range, range), <<-1, 1>>, <<1, 1>>)

normalize(b, raw_value) ==
    LET range == b.max_value - b.min_value IN
    IF Abs(range) < Epsilon THEN <<0, 1>>
    ELSE LET normalized == Clamp(Rat(2 * (raw_value - b.min_value) - range, range),
                                 <<-1, 1>>, <<1, 1>>)
         IN  IF b.inverted THEN RatNeg(normalized) ELSE normalized

\* normalize_trigger that ignores the inverted flag
normalize_trigger_uninverted(b, raw_value) ==
    LET range == b.max_value - b.min_value IN
    IF Abs(range) < Epsilon THEN <<0, 1>>
    ELSE Clamp(Rat(raw_value - b.min_value, range), <<0, 1>>, <<1, 1>>)

normalize_trigger(b, raw_value) ==
    LET range == b.max_value - b.min_value IN
    IF Abs(range) < Epsilon THEN <<0, 1>>
    ELSE LET normalized == Clamp(Rat(raw_value - b.min_value, range),
                                 <<0, 1>>, <<1, 1>>)
         IN  IF b.inverted THEN RatOneMinus(normalized) ELSE normalized

\* is_complete that also asks for the clutch
is_complete_needs_clutch(c) ==
    /\ c.steering # None
    /\ c.throttle # None
    /\ c.brake # None
    /\ c.clutch # None
    /\ c.shift_up # None
    /\ c.shift_down # None

is_complete(c) ==
    /\ c.steering # None
    /\ c.throttle # None
    /\ c.brake # None
    /\ c.shift_up # None
    /\ c.shift_down # None

\* ---------------------------------------------------------- calibration.rs
can_skip(s) == s \in {"ClutchPressed", "ClutchReleased"}

\* next() whose Complete arm starts the wizard over
next_restarts(s) ==
    CASE s = "Welcome"          -> "SteeringLeft"
      [] s = "SteeringLeft"     -> "SteeringRight"
      [] s = "SteeringRight"    -> "ThrottlePressed"
      [] s = "ThrottlePressed"  -> "ThrottleReleased"
      [] s = "ThrottleReleased" -> "BrakePressed"
      [] s = "BrakePressed"     -> "BrakeReleased"
      [] s = "BrakeReleased"    -> "ClutchPressed"
      [] s = "ClutchPressed"    -> "ClutchReleased"
      [] s = "ClutchReleased"   -> "ShiftUp"
      [] s = "ShiftUp"          -> "ShiftDown"
      [] s = "ShiftDown"        -> "Complete"
      [] s = "Complete"         -> "Welcome"

next(s) ==
    CASE s = "Welcome"          -> "SteeringLeft"
      [] s = "SteeringLeft"     -> "SteeringRight"
      [] s = "SteeringRight"    -> "ThrottlePressed"
      [] s = "ThrottlePressed"  -> "ThrottleReleased"
      [] s = "ThrottleReleased" -> "BrakePressed"
      [] s = "BrakePressed"     -> "BrakeReleased"
      [] s = "BrakeReleased"    -> "ClutchPressed"
      [] s = "ClutchPressed"    -> "ClutchReleased"
      [] s = "ClutchReleased"   -> "ShiftUp"
      [] s = "ShiftUp"          -> "ShiftDown"
      [] s = "ShiftDown"        -> "Complete"
      [] s = "Complete"         -> "Complete"

\* skip_clutch without the jump over the clutch steps
skip_clutch_as_next(s) == next(s)

\* skip_clutch that stays put outside the clutch steps
skip_clutch_stays(s) ==
    IF s = "ClutchPressed" \/ s = "ClutchReleased" THEN "ShiftUp" ELSE s

skip_clutch(s) ==
    IF s = "ClutchPressed" \/ s = "ClutchReleased" THEN "ShiftUp" ELSE next(s)

VARIABLES
    step,             \* CalibrationWizard.step
    config,           \* CalibrationWizard.config
    axis_trackers,    \* CalibrationWizard.axis_trackers, keyed by (device_id, axis_code)
    captured_axis,    \* Option<(device_id, device_name, axis_code, value)>
    captured_button,  \* Option<(device_id, device_name, button_code)>
    disk,             \* contents of rowheel_config.json, None while the file is absent
    events,           \* process_event calls so far
    complete_ret,     \* result of the last is_complete() query on config
    last              \* history: the last advance()/skip() call and the state it ran in;
                      \* last.fresh holds until the next process_event or capture call

VARIABLES
    norm              \* a binding, two raw values and the results of the
                      \* normalize / normalize_trigger calls made on them

VARIABLES
    fg,                 \* where the thread that owns the controller is
    connected,          \* VirtualXboxController.connected
    uinput_file,        \* VirtualXboxController.uinput_file: "none" or "some"
    ff_thread_handle,   \* VirtualXboxController.ff_thread_handle: "none" or "some"
    ff_thread_running,  \* the AtomicBool shared with the listener
    uinput_fd,          \* descriptor of /dev/uinput: "none", "open", "closed"
    thread_fd,          \* the listener's dup of it: "none", "open", "closed"
    device,             \* the uinput device: "none", "created", "destroyed"
    lpc,                \* where the listener thread is
    ev,                 \* the event the listener is handling
    pending,            \* the event at the head of the uinput queue
    ff_effects,         \* the effect table, keyed by effect id
    rumble_state,       \* the RumbleState behind its mutex
    fx_lock,            \* holder of the effect table's mutex
    rumble_lock,        \* holder of the rumble state's mutex
    rumble_ret,         \* what the last get_rumble() read, with the history's
                        \* last finished write at that moment
    lhist,              \* history of the listener
    teardown,           \* history: the steps Drop has taken, in order
    connect_result,     \* history: "ok" or the step connect() failed at
    out,                \* the events written to the uinput descriptor
    update_ret          \* the last update(): its snapshot and whether it was Ok

VARIABLES
    plat,               \* the build: "linux" (evdev relay) or "windows" (DirectInput relay)
    app,                \* RoWheelApp: mode, virtual_controller, force_feedback,
                        \* status_message, and the error value the last
                        \* VirtualXboxController::new() returned
    holder,             \* who holds the relay ff: "none", "app" (app.force_feedback)
                        \* or "direct" (a caller of ForceFeedbackDevice::new)
    ff,                 \* the fields of the ForceFeedbackDevice that is held
    made,               \* number of effect objects created so far
    rcall,              \* history: the last call, the relay before it, the device
                        \* operations it made in order, and what it returned
    run,                \* history: effects created and started and apply_rumble calls
                        \* that returned Ok since the relay was built or stop() was called
    calls               \* number of calls made so far

wizard_vars == <<step, config, axis_trackers, captured_axis, captured_button,
                 disk, events, complete_ret, last>>
norm_vars == <<norm>>
backend_vars == <<fg, connected, uinput_file, ff_thread_handle, ff_thread_running,
                  uinput_fd, thread_fd, device, lpc, ev, pending, ff_effects,
                  rumble_state, fx_lock, rumble_lock, rumble_ret, lhist, teardown,
                  connect_result, out, update_ret>>
relay_vars == <<plat, app, holder, ff, made, rcall, run, calls>>
\* what the wizard's operations do not touch
not_wizard == <<norm_vars, backend_vars, relay_vars>>

vars == <<wizard_vars, norm_vars, backend_vars, relay_vars>>

\* AxisTracker::movement
movement(t) == Abs(t.current_value - t.initial_value)

AxisTracker(k, init, cur) ==
    [device_id |-> k[1], device_name |-> DeviceName(k[1]), axis_code |-> k[2],
     initial_value |-> init, current_value |-> cur]

\* get_most_moved_axis without the minimum movement filter
get_most_moved_axis_unfiltered(trackers) ==
    {k \in DOMAIN trackers :
        \A j \in DOMAIN trackers : movement(trackers[j]) <= movement(trackers[k])}

\* get_most_moved_axis that returns any tracker over the threshold
get_most_moved_axis_any(trackers) ==
    {k \in DOMAIN trackers : movement(trackers[k]) > MovementThreshold}

\* The trackers get_most_moved_axis can return.  max_by walks the HashMap in
\* an unspecified order and keeps the last maximal element, so among trackers
\* of equal maximal movement any one may be returned.
get_most_moved_axis(trackers) ==
    {k \in DOMAIN trackers :
        /\ \A j \in DOMAIN trackers : movement(trackers[j]) <= movement(trackers[k])
        /\ movement(trackers[k]) > MovementThreshold}

\* the values captured_axis can hold after capture_axis_position
capture_axis_position_results ==
    IF get_most_moved_axis(axis_trackers) = {} THEN {captured_axis}
    ELSE {Some(<<axis_trackers[k].device_id, axis_trackers[k].device_name,
                 axis_trackers[k].axis_code, axis_trackers[k].current_value>>) :
             k \in get_most_moved_axis(axis_trackers)}

\* first half of an axis calibration: a fresh binding with min = max = value
first_half(old, cap) ==
    IF cap # None
    THEN Some(AxisBinding(cap[1][1], cap[1][3], cap[1][4], cap[1][4], FALSE))
    ELSE old

\* SteeringRight without the inversion check
steering_right_noswap(old, cap) ==
    IF old # None /\ cap # None
    THEN Some([old[1] EXCEPT !.max_value = cap[1][4]])
    ELSE old

\* SteeringRight
steering_right(old, cap) ==
    IF old # None /\ cap # None
    THEN LET value == cap[1][4]
             s1 == [old[1] EXCEPT !.max_value = value]
         IN  IF s1.min_value > s1.max_value
             THEN Some([s1 EXCEPT !.min_value = s1.max_value,
                                  !.max_value = s1.min_value,
                                  !.inverted = TRUE])
             ELSE Some(s1)
    ELSE old

\* the release step with the pressed value moved into min_value and the
\* release value stored as max_value before the inversion check
pedal_released_pressed_as_min(old, cap) ==
    IF old # None /\ cap # None
    THEN LET value == cap[1][4]
             pressed_value == old[1].max_value
             p1 == [old[1] EXCEPT !.min_value = pressed_value, !.max_value = value]
         IN  IF p1.min_value > p1.max_value
             THEN Some([p1 EXCEPT !.min_value = p1.max_value,
                                  !.max_value = p1.min_value,
                                  !.inverted = TRUE])
             ELSE Some(p1)
    ELSE old

\* the release step that orders the ends without setting the inverted flag
pedal_released_unflagged(old, cap) ==
    IF old # None /\ cap # None
    THEN LET value == cap[1][4]
             pressed_value == old[1].max_value
             p1 == [old[1] EXCEPT !.min_value = value, !.max_value = pressed_value]
         IN  IF p1.min_value > p1.max_value
             THEN Some([p1 EXCEPT !.min_value = p1.max_value,
                                  !.max_value = p1.min_value])
             ELSE Some(p1)
    ELSE old

\* ThrottleReleased, BrakeReleased, ClutchReleased
pedal_released(old, cap) ==
    IF old # None /\ cap # None
    THEN LET value == cap[1][4]
             pressed_value == old[1].max_value
             p1 == [old[1] EXCEPT !.min_value = value, !.max_value = pressed_value]
         IN  IF p1.min_value > p1.max_value
             THEN Some([p1 EXCEPT !.min_value = p1.max_value,
                                  !.max_value = p1.min_value,
                                  !.inverted = TRUE])
             ELSE Some(p1)
    ELSE old

\* ShiftUp, ShiftDown
shift_button(old, btn) ==
    IF btn # None THEN Some(ButtonBinding(btn[1][1], btn[1][3])) ELSE old

\* the match on self.step in advance(): the profile after the commit
commit(s, c, cap, btn) ==
    CASE s = "SteeringLeft"     -> [c EXCEPT !.steering = first_half(c.steering, cap)]
      [] s = "SteeringRight"    -> [c EXCEPT !.steering = steering_right(c.steering, cap)]
      [] s = "ThrottlePressed"  -> [c EXCEPT !.throttle = first_half(c.throttle, cap)]
      [] s = "ThrottleReleased" -> [c EXCEPT !.throttle = pedal_released(c.throttle, cap)]
      [] s = "BrakePressed"     -> [c EXCEPT !.brake = first_half(c.brake, cap)]
      [] s = "BrakeReleased"    -> [c EXCEPT !.brake = pedal_released(c.brake, cap)]
      [] s = "ClutchPressed"    -> [c EXCEPT !.clutch = first_half(c.clutch, cap)]
      [] s = "ClutchReleased"   -> [c EXCEPT !.clutch = pedal_released(c.clutch, cap)]
      [] s = "ShiftUp"          -> [c EXCEPT !.shift_up = shift_button(c.shift_up, btn)]
      [] s = "ShiftDown"        -> [c EXCEPT !.shift_down = shift_button(c.shift_down, btn)]
      [] OTHER                  -> c

\* the step whose arm of advance() calls self.config.save()
saves_on(s) == s = "Complete"

\* WheelConfig::save: an Ok result writes the profile to the file, an Err
\* result (serialisation or file-system failure) leaves the file as it was
save(c, file, ok) == IF ok THEN Some(c) ELSE file

\* steps whose advance() creates a binding from the captured axis
FirstHalfSteps == {"SteeringLeft", "ThrottlePressed", "BrakePressed", "ClutchPressed"}

\* history: does some tracked axis exceed the movement threshold
ExceedsThreshold(trackers) ==
    \E k \in DOMAIN trackers :
       Abs(trackers[k].current_value - trackers[k].initial_value) > MovementThreshold

\* history: the value the call recorded in r committed in a first-half step
FirstHalfValue(r) ==
    IF r.op = "advance" /\ r.from \in FirstHalfSteps /\ r.cap # None
    THEN Some(r.cap[1][4]) ELSE None

\* ------------------------------------------- virtual_controller/linux.rs
\* linux.rs:536  u16::MAX
U16Max == 65535

\* effect ids a game uploads, plays, stops and erases
EffectIds == {0, 1}
\* (strong_magnitude, weak_magnitude) pairs of uploaded rumble effects
Magnitudes == {<<65535, 0>>, <<21845, 65535>>}

FFRumbleEffect(m) == [strong_magnitude |-> m[1], weak_magnitude |-> m[2]]

\* RumbleState::default()
DefaultRumble == [large_motor |-> <<0, 1>>, small_motor |-> <<0, 1>>]

\* events the kernel queues on the uinput descriptor.  EV_FF carries the
\* effect id in code and the play count in value; an EV_UINPUT request stands
\* for the request_id under which the kernel keeps the effect (req).
KernelEvents ==
    {[type_ |-> "EV_FF", code |-> i, value |-> v, req |-> None] :
        i \in EffectIds, v \in {0, 1}}
    \cup {[type_ |-> "EV_UINPUT", code |-> "UI_FF_UPLOAD", value |-> 0,
           req |-> Some([id |-> i, type_ |-> "FF_RUMBLE", u |-> FFRumbleEffect(m)])] :
             i \in EffectIds, m \in Magnitudes}
    \cup {[type_ |-> "EV_UINPUT", code |-> "UI_FF_UPLOAD", value |-> 0,
           req |-> Some([id |-> i, type_ |-> "FF_PERIODIC",
                         u |-> FFRumbleEffect(<<0, 0>>)])] : i \in EffectIds}
    \cup {[type_ |-> "EV_UINPUT", code |-> "UI_FF_ERASE", value |-> 0,
           req |-> Some([id |-> i])] : i \in EffectIds}
    \cup {[type_ |-> "EV_LED", code |-> 0, value |-> 1, req |-> None]}

\* steps of connect() that can fail, in the order connect() takes them
ConnectFailures ==
    {"open", "fcntl", "setup", "write_dev", "create", "find_path", "dup"}

\* history kept by the listener: has a play event found its effect (played),
\* the effect the play event being handled found (found), the effect found by
\* the last handler that finished if that was a play event (after_play), and
\* the pair of the last write of both motor fields that finished.  Kept only
\* where the listener is watched from the game's side (SpecGame): the ids of
\* the rumble effects the game has playing (playing: added when a play event
\* that found its effect is done, removed by a stop event or an erase of the
\* id), the BEGIN ioctls that succeeded and have had no END ioctl yet (open),
\* and for each id the last request whose BEGIN succeeded (req)
NoHistory ==
    [played |-> FALSE, found |-> None, after_play |-> None,
     last_write |-> DefaultRumble, playing |-> {}, open |-> 0,
     req |-> [i \in EffectIds |-> "none"]]

\* no VirtualXboxController exists
NoBackend ==
    /\ fg = "none"
    /\ connected = FALSE
    /\ uinput_file = "none"
    /\ ff_thread_handle = "none"
    /\ ff_thread_running = FALSE
    /\ uinput_fd = "none"
    /\ thread_fd = "none"
    /\ device = "none"
    /\ lpc = "none"
    /\ ev = None
    /\ pending = None
    /\ ff_effects = <<>>
    /\ rumble_state = DefaultRumble
    /\ fx_lock = "free"
    /\ rumble_lock = "free"
    /\ rumble_ret = [ret |-> None, seen |-> None]
    /\ lhist = NoHistory
    /\ teardown = <<>>
    /\ connect_result = "none"
    /\ out = <<>>
    /\ update_ret = None

\* ForceFeedbackDevice as new() first builds it. Linux: device, available,
\* constant_effect (effect), effect_playing. Windows: dinput, device, effect,
\* available, effect_started (effect_playing), com_initialized, message_window.
\* A handle is TRUE while held; effect is the effect object held, if any.
NewRelay ==
    [device |-> FALSE, dinput |-> FALSE, effect |-> None,
     message_window |-> FALSE, com_initialized |-> FALSE,
     available |-> FALSE, effect_playing |-> FALSE]

NoRun == [created |-> 0, started |-> 0, applied |-> 0]

NoRelayCall ==
    [op |-> "none", large |-> <<0, 1>>, small |-> <<0, 1>>, outcome |-> "none",
     before |-> NewRelay, built |-> NewRelay, log |-> <<>>, ret |-> "none",
     logged |-> FALSE, level |-> None, prior |-> "none", path |-> None,
     torn |-> NewRelay, teardown |-> <<>>, updated |-> FALSE, cause |-> "none",
     vcs |-> 0, alive |-> 0, steps |-> <<>>]

\* RoWheelApp before new() has run
NoApp ==
    [mode |-> "none", virtual_controller |-> FALSE, force_feedback |-> FALSE,
     status_message |-> <<>>, vc_error |-> None, updates |-> 0,
     probe |-> "never"]

\* no relay exists and the application has not started
NoRelay ==
    /\ plat = "linux"
    /\ app = NoApp
    /\ holder = "none"
    /\ ff = NewRelay
    /\ made = 0
    /\ rcall = NoRelayCall
    /\ run = NoRun
    /\ calls = 0

\* history: the most recent ButtonPressed event of the step in progress (of
\* the step the last call ended while no event has followed that call)
PressedSoFar(r) == IF r.fresh THEN None ELSE r.pressed

\* history (kept for first-half steps): the tracked axes of maximal
\* |latest - baseline|, each as <<device_id, axis_code, latest value>>
MostMoved(trackers) ==
    {<<trackers[k].device_id, trackers[k].axis_code, trackers[k].current_value>> :
        k \in {i \in DOMAIN trackers :
                 \A j \in DOMAIN trackers :
                    Abs(trackers[j].current_value - trackers[j].initial_value)
                    <= Abs(trackers[i].current_value - trackers[i].initial_value)}}

\* history: does a tracked axis that moved less than another one still
\* exceed the movement threshold
Rival(trackers) ==
    \E i, j \in DOMAIN trackers :
       /\ Abs(trackers[i].current_value - trackers[i].initial_value)
          < Abs(trackers[j].current_value - trackers[j].initial_value)
       /\ Abs(trackers[i].current_value - trackers[i].initial_value)
          > MovementThreshold

\* no normalize / normalize_trigger call is being looked at
NoNorm == <<>>

NoCall == [op |-> "none", from |-> "Welcome", fresh |-> TRUE,
           before |-> DefaultConfig, pressed |-> None,
           tracked |-> FALSE, pending |-> FALSE, moved |-> FALSE, cap |-> None,
           first |-> None, save |-> "none", best |-> {}, rival |-> FALSE]

\* CalibrationWizard::new(existing_config), with the profile WheelConfig::load found
ExistingConfigs ==
    {DefaultConfig,
     [steering |-> Some(AxisBinding("wheel", 0, 0, 1600, TRUE)),
      throttle |-> Some(AxisBinding("pedals", 1, 0, 1600, FALSE)),
      brake |-> Some(AxisBinding("pedals", 1, 1, 1600, FALSE)),
      clutch |-> None,
      shift_up |-> Some(ButtonBinding("wheel", 4)),
      shift_down |-> Some(ButtonBinding("wheel", 5)),
      force_feedback_device |-> Some("wheel")]}

Init ==
    /\ step = "Welcome"
    /\ config \in ExistingConfigs
    /\ axis_trackers = <<>>
    /\ captured_axis = None
    /\ captured_button = None
    /\ disk = IF config = DefaultConfig THEN None ELSE Some(config)
    /\ events = 0
    /\ complete_ret = None
    /\ last = NoCall
    /\ norm = NoNorm
    /\ NoBackend
    /\ NoRelay

\* process_event(AxisMoved { device_id, device_name, axis_code, value })
process_event_axis ==
    /\ events < MaxEvents
    /\ \E key \in Keys, value \in Values :
          axis_trackers' =
             IF key \in DOMAIN axis_trackers
             THEN [axis_trackers EXCEPT ![key].current_value = value]
             ELSE [k \in DOMAIN axis_trackers \cup {key} |->
                      IF k = key THEN AxisTracker(key, value, value)
                      ELSE axis_trackers[k]]
    /\ events' = events + 1
    /\ last' = [last EXCEPT !.fresh = FALSE, !.pressed = PressedSoFar(last)]
    /\ UNCHANGED not_wizard
    /\ UNCHANGED <<step, config, captured_axis, captured_button, disk,
                   complete_ret>>

\* process_event(ButtonPressed { device_id, device_name, button_code })
process_event_button ==
    /\ events < MaxEvents
    /\ \E b \in Buttons :
          /\ captured_button' = Some(<<b[1], DeviceName(b[1]), b[2]>>)
          /\ last' = [last EXCEPT !.fresh = FALSE,
                                  !.pressed = Some(<<b[1], DeviceName(b[1]), b[2]>>)]
    /\ events' = events + 1
    /\ UNCHANGED not_wizard
    /\ UNCHANGED <<step, config, axis_trackers, captured_axis, disk,
                   complete_ret>>

\* process_event whose ButtonReleased arm forgets the captured button
process_event_release_clears ==
    /\ events < MaxEvents
    /\ events' = events + 1
    /\ captured_button' = None
    /\ last' = [last EXCEPT !.fresh = FALSE, !.pressed = PressedSoFar(last)]
    /\ UNCHANGED not_wizard
    /\ UNCHANGED <<step, config, axis_trackers, captured_axis, disk, complete_ret>>

\* process_event of ButtonReleased, DeviceConnected, DeviceDisconnected
process_event_other ==
    /\ events < MaxEvents
    /\ events' = events + 1
    /\ last' = [last EXCEPT !.fresh = FALSE, !.pressed = PressedSoFar(last)]
    /\ UNCHANGED not_wizard
    /\ UNCHANGED <<step, config, axis_trackers, captured_axis, captured_button,
                   disk, complete_ret>>

\* capture_axis_position() called on its own (it is a pub fn)
capture_axis_position ==
    /\ captured_axis' \in capture_axis_position_results
    /\ captured_axis' # captured_axis
    /\ last' = [last EXCEPT !.fresh = FALSE, !.pressed = PressedSoFar(last)]
    /\ UNCHANGED not_wizard
    /\ UNCHANGED <<step, config, axis_trackers, captured_button, disk, events,
                   complete_ret>>

\* advance() whose reset forgets the captured button
advance_keeps_button ==
    \E cap \in capture_axis_position_results, save_ok \in BOOLEAN :
       /\ config' = commit(step, config, cap, captured_button)
       /\ disk' = IF saves_on(step) THEN save(config, disk, save_ok) ELSE disk
       /\ axis_trackers' = <<>>
       /\ captured_axis' = None
       /\ captured_button' =
             IF step \in {"ShiftUp", "ShiftDown"} THEN None ELSE captured_button
       /\ step' = next(step)
       /\ last' = [op |-> "advance", from |-> step, fresh |-> TRUE,
                   before |-> config, pressed |-> PressedSoFar(last),
                   tracked |-> DOMAIN axis_trackers # {},
                   pending |-> captured_axis # None,
                   moved |-> ExceedsThreshold(axis_trackers),
                   cap |-> cap, first |-> FirstHalfValue(last),
                   best |-> IF step \in FirstHalfSteps
                            THEN MostMoved(axis_trackers) ELSE {},
                   rival |-> step \in FirstHalfSteps /\ Rival(axis_trackers),
                   save |-> IF ~saves_on(step) THEN "none"
                            ELSE IF save_ok THEN "ok" ELSE "failed"]
       /\ UNCHANGED not_wizard
       /\ UNCHANGED <<events, complete_ret>>

\* advance(): capture, commit for the current step, reset, move to next()
advance ==
    \E cap \in capture_axis_position_results, save_ok \in BOOLEAN :
       /\ config' = commit(step, config, cap, captured_button)
       /\ disk' = IF saves_on(step) THEN save(config, disk, save_ok) ELSE disk
       /\ axis_trackers' = <<>>
       /\ captured_axis' = None
       /\ captured_button' = None
       /\ step' = next(step)
       /\ last' = [op |-> "advance", from |-> step, fresh |-> TRUE,
                   before |-> config, pressed |-> PressedSoFar(last),
                   tracked |-> DOMAIN axis_trackers # {},
                   pending |-> captured_axis # None,
                   moved |-> ExceedsThreshold(axis_trackers),
                   cap |-> cap, first |-> FirstHalfValue(last),
                   best |-> IF step \in FirstHalfSteps
                            THEN MostMoved(axis_trackers) ELSE {},
                   rival |-> step \in FirstHalfSteps /\ Rival(axis_trackers),
                   save |-> IF ~saves_on(step) THEN "none"
                            ELSE IF save_ok THEN "ok" ELSE "failed"]
       /\ UNCHANGED not_wizard
       /\ UNCHANGED <<events, complete_ret>>

\* skip()
skip ==
    /\ axis_trackers' = <<>>
    /\ captured_axis' = None
    /\ captured_button' = None
    /\ step' = skip_clutch(step)
    /\ last' = [op |-> "skip", from |-> step, fresh |-> TRUE,
                before |-> config, pressed |-> PressedSoFar(last),
                tracked |-> DOMAIN axis_trackers # {},
                pending |-> captured_axis # None,
                moved |-> ExceedsThreshold(axis_trackers),
                cap |-> None, first |-> None, save |-> "none", best |-> {}, rival |-> FALSE]
    /\ UNCHANGED not_wizard
    /\ UNCHANGED <<config, disk, events, complete_ret>>

Next ==
    \/ process_event_axis
    \/ process_event_button
    \/ process_event_other
    \/ capture_axis_position
    \/ advance
    \/ skip

Spec == Init /\ [][Next]_vars

\* ------------------------------------------------- is_complete on its own
\* profiles with every combination of present and absent fields
ProfileInputs ==
    [steering : {None, Some(AxisBinding("wheel", 0, 0, 1600, FALSE))},
     throttle : {None, Some(AxisBinding("pedals", 1, 0, 1600, FALSE))},
     brake : {None, Some(AxisBinding("pedals", 1, 1, 1600, TRUE))},
     clutch : {None, Some(AxisBinding("pedals", 1, 0, 1, FALSE))},
     shift_up : {None, Some(ButtonBinding("wheel", 4))},
     shift_down : {None, Some(ButtonBinding("wheel", 5))},
     force_feedback_device : {None, Some("wheel")}]

InitProfile ==
    /\ step = "Welcome"
    /\ config \in ProfileInputs
    /\ axis_trackers = <<>>
    /\ captured_axis = None
    /\ captured_button = None
    /\ disk = None
    /\ events = 0
    /\ complete_ret = None
    /\ last = NoCall
    /\ norm = NoNorm
    /\ NoBackend
    /\ NoRelay

\* a caller asks config.is_complete(), as RoWheelApp::new does (app.rs:41)
query_is_complete ==
    /\ complete_ret = None
    /\ complete_ret' = Some(is_complete(config))
    /\ UNCHANGED not_wizard
    /\ UNCHANGED <<step, config, axis_trackers, captured_axis, captured_button,
                   disk, events, last>>

SpecProfile == InitProfile /\ [][query_is_complete]_vars

\* ------------------------------ normalize and normalize_trigger on their own
\* calibration ends of a binding: -1.0, 0.0, 0.0005, 0.001, 0.8
EndValues == {-2000, 0, 1, 2, 1600}
\* raw axis values: the ends, values between them and values beyond them
RawValues == {-2400, -2000, -1, 0, 1, 2, 800, 1600, 2400}

\* bindings as a profile file can hold them: any two ends, in either order,
\* equal or nearly equal ends included
BindingInputs ==
    {AxisBinding("pedals", 1, lo, hi, inv) :
        lo \in EndValues, hi \in EndValues, inv \in BOOLEAN}

InitNormalize ==
    /\ step = "Welcome"
    /\ config = DefaultConfig
    /\ axis_trackers = <<>>
    /\ captured_axis = None
    /\ captured_button = None
    /\ disk = None
    /\ events = 0
    /\ complete_ret = None
    /\ last = NoCall
    /\ norm \in [b : BindingInputs, raw : RawValues, raw2 : RawValues,
                 n : {None}, t : {None}]
    /\ NoBackend
    /\ NoRelay

\* binding.normalize(raw)
call_normalize ==
    /\ norm # NoNorm
    /\ norm.n = None
    /\ norm' = [norm EXCEPT !.n = Some(normalize(norm.b, norm.raw))]
    /\ UNCHANGED <<wizard_vars, backend_vars, relay_vars>>

\* binding.normalize_trigger(raw) and binding.normalize_trigger(raw2)
call_normalize_trigger ==
    /\ norm # NoNorm
    /\ norm.t = None
    /\ norm' = [norm EXCEPT !.t = Some(<<normalize_trigger(norm.b, norm.raw),
                                         normalize_trigger(norm.b, norm.raw2)>>)]
    /\ UNCHANGED <<wizard_vars, backend_vars, relay_vars>>

NextNormalize == call_normalize \/ call_normalize_trigger

SpecNormalize == InitNormalize /\ [][NextNormalize]_vars

\* magnitude as f32 / 65536.0
rumble_scale_pow2(m) == Rat(m, U16Max + 1)

\* magnitude as f32 / u16::MAX as f32
rumble_scale(m) == Rat(m, U16Max)

\* the uinput device goes away with UI_DEV_DESTROY or when the last
\* descriptor of the open file is closed
device_after_close(dev, fd, tfd) ==
    IF dev = "created" /\ fd # "open" /\ tfd # "open" THEN "destroyed" ELSE dev

\* VirtualXboxController::new(): the struct with its defaults, then connect().
\* connect() either fails at one of its steps or runs to the end; a step that
\* fails drops whatever connect() holds locally, and new() then drops the
\* controller (the drop_* steps).
connect ==
    /\ fg = "none"
    /\ \E r \in ConnectFailures \cup {"ok"} :
          /\ connect_result' = r
          /\ fg' = IF r = "ok" THEN "connected" ELSE "connect_failed"
          /\ uinput_file' = IF r \in {"dup", "ok"} THEN "some" ELSE "none"
          /\ connected' = (r \in {"dup", "ok"})
          /\ uinput_fd' = IF r = "open" THEN "none"
                          ELSE IF r \in {"dup", "ok"} THEN "open" ELSE "closed"
          /\ device' = IF r \in {"open", "fcntl", "setup", "write_dev", "create"}
                       THEN "none"
                       ELSE IF r = "find_path" THEN "destroyed" ELSE "created"
          /\ thread_fd' = IF r = "ok" THEN "open" ELSE "none"
          /\ ff_thread_running' = (r = "ok")
          /\ lpc' = IF r = "ok" THEN "while" ELSE "none"
          /\ ff_thread_handle' = IF r = "ok" THEN "some" ELSE "none"
    /\ UNCHANGED <<ev, pending, ff_effects, rumble_state, fx_lock, rumble_lock,
                   rumble_ret, lhist, teardown, out, update_ret>>
    /\ UNCHANGED <<wizard_vars, norm_vars, relay_vars>>

\* a game using the device makes the kernel queue an event; pending is the
\* event at the head of the queue
kernel_event ==
    /\ device = "created"
    /\ pending = None
    /\ \E e \in KernelEvents : pending' = Some(e)
    /\ UNCHANGED <<fg, connected, uinput_file, ff_thread_handle, ff_thread_running,
                   uinput_fd, thread_fd, device, lpc, ev, ff_effects, rumble_state,
                   fx_lock, rumble_lock, rumble_ret, lhist, teardown,
                   connect_result, out, update_ret>>
    /\ UNCHANGED <<wizard_vars, norm_vars, relay_vars>>

\* what a listener step leaves alone
listener_frame ==
    <<fg, connected, uinput_file, ff_thread_handle, ff_thread_running,
      uinput_fd, rumble_ret, teardown, connect_result, out, update_ret,
      wizard_vars, norm_vars, relay_vars>>

\* while running.load(SeqCst)
listener_while ==
    /\ lpc = "while"
    /\ lpc' = IF ff_thread_running THEN "poll" ELSE "close"
    /\ UNCHANGED <<thread_fd, device, ev, pending, ff_effects, rumble_state,
                   fx_lock, rumble_lock, lhist>>
    /\ UNCHANGED listener_frame

\* libc::poll(.., 100): an error other than EINTR leaves the loop, EINTR and
\* the timeout go back to the loop condition, a readable descriptor goes on
\* to the read loop
listener_poll ==
    /\ lpc = "poll"
    /\ \E r \in {"error", "eintr", "timeout", "ready"} :
          /\ r = "timeout" => pending = None
          /\ r = "ready" => pending # None
          /\ lpc' = CASE r = "error" -> "close"
                      [] r = "ready" -> "read"
                      [] OTHER -> "while"
    /\ UNCHANGED <<thread_fd, device, ev, pending, ff_effects, rumble_state,
                   fx_lock, rumble_lock, lhist>>
    /\ UNCHANGED listener_frame

\* the arm of the read loop an event is handled by
dispatch(e) ==
    IF e.type_ = "EV_UINPUT"
    THEN CASE e.code = "UI_FF_UPLOAD" -> "upload_begin"
           [] e.code = "UI_FF_ERASE" -> "erase_begin"
           [] OTHER -> "read"
    ELSE IF e.type_ = "EV_FF"
         THEN IF e.value > 0 THEN "play_lock_effects" ELSE "stop_lock_rumble"
         ELSE "read"

\* the history after the handler of an event has finished
Finished(h) == [h EXCEPT !.after_play = h.found, !.found = None]

\* libc::read in the inner loop: WouldBlock, another error or a short read
\* leave the inner loop, a whole event is dispatched
listener_read ==
    /\ lpc = "read"
    /\ \E r \in {"wouldblock", "error", "event"} :
          /\ r = "wouldblock" => pending = None
          /\ r = "event" => pending # None
          /\ IF r = "event"
             THEN /\ pending' = None
                  /\ lpc' = dispatch(pending[1])
                  /\ ev' = IF dispatch(pending[1]) = "read" THEN None ELSE pending
                  /\ lhist' = IF dispatch(pending[1]) = "read"
                              THEN Finished(lhist) ELSE lhist
             ELSE /\ lpc' = "while"
                  /\ UNCHANGED <<pending, ev, lhist>>
    /\ UNCHANGED <<thread_fd, device, ff_effects, rumble_state, fx_lock, rumble_lock>>
    /\ UNCHANGED listener_frame

\* ioctl(UI_BEGIN_FF_UPLOAD): the kernel fills in the effect of the request;
\* a failure goes on to the next read
upload_begin ==
    /\ lpc = "upload_begin"
    /\ \E ok \in BOOLEAN :
          IF ok
          THEN /\ lpc' = IF ev[1].req[1].type_ = "FF_RUMBLE"
                         THEN "upload_store" ELSE "upload_end"
               /\ UNCHANGED <<ev, lhist>>
          ELSE /\ lpc' = "read"
               /\ ev' = None
               /\ lhist' = Finished(lhist)
    /\ UNCHANGED <<thread_fd, device, pending, ff_effects, rumble_state,
                   fx_lock, rumble_lock>>
    /\ UNCHANGED listener_frame

\* ff_effects.lock(), effects.insert(upload.effect.id, rumble_effect)
upload_store ==
    /\ lpc = "upload_store"
    /\ fx_lock = "free"
    /\ LET id == ev[1].req[1].id IN
       ff_effects' = [k \in DOMAIN ff_effects \cup {id} |->
                         IF k = id THEN ev[1].req[1].u ELSE ff_effects[k]]
    /\ lpc' = "upload_end"
    /\ UNCHANGED <<thread_fd, device, ev, pending, rumble_state, fx_lock,
                   rumble_lock, lhist>>
    /\ UNCHANGED listener_frame

\* ioctl(UI_END_FF_UPLOAD), whose result is only logged
upload_end ==
    /\ lpc = "upload_end"
    /\ lpc' = "read"
    /\ ev' = None
    /\ lhist' = Finished(lhist)
    /\ UNCHANGED <<thread_fd, device, pending, ff_effects, rumble_state,
                   fx_lock, rumble_lock>>
    /\ UNCHANGED listener_frame

\* ioctl(UI_BEGIN_FF_ERASE): the kernel fills in effect_id
erase_begin ==
    /\ lpc = "erase_begin"
    /\ \E ok \in BOOLEAN :
          IF ok
          THEN /\ lpc' = "erase_remove"
               /\ UNCHANGED <<ev, lhist>>
          ELSE /\ lpc' = "read"
               /\ ev' = None
               /\ lhist' = Finished(lhist)
    /\ UNCHANGED <<thread_fd, device, pending, ff_effects, rumble_state,
                   fx_lock, rumble_lock>>
    /\ UNCHANGED listener_frame

\* ff_effects.lock(), effects.remove(&erase.effect_id)
erase_remove ==
    /\ lpc = "erase_remove"
    /\ fx_lock = "free"
    /\ ff_effects' = [k \in DOMAIN ff_effects \ {ev[1].req[1].id} |-> ff_effects[k]]
    /\ lpc' = "erase_end"
    /\ UNCHANGED <<thread_fd, device, ev, pending, rumble_state, fx_lock,
                   rumble_lock, lhist>>
    /\ UNCHANGED listener_frame

\* ioctl(UI_END_FF_ERASE), whose result is only logged
erase_end ==
    /\ lpc = "erase_end"
    /\ lpc' = "read"
    /\ ev' = None
    /\ lhist' = Finished(lhist)
    /\ UNCHANGED <<thread_fd, device, pending, ff_effects, rumble_state,
                   fx_lock, rumble_lock>>
    /\ UNCHANGED listener_frame

\* EV_FF with value > 0: ff_effects.lock() and effects.get(&event.code); the
\* guard is kept while the effect is used, an unknown id is only logged
play_lock_effects ==
    /\ lpc = "play_lock_effects"
    /\ fx_lock = "free"
    /\ IF ev[1].code \in DOMAIN ff_effects
       THEN /\ fx_lock' = "listener"
            /\ lpc' = "play_lock_rumble"
            /\ lhist' = [lhist EXCEPT !.played = TRUE,
                                      !.found = Some(ff_effects[ev[1].code])]
            /\ UNCHANGED ev
       ELSE /\ lpc' = "read"
            /\ ev' = None
            /\ lhist' = Finished(lhist)
            /\ UNCHANGED fx_lock
    /\ UNCHANGED <<thread_fd, device, pending, ff_effects, rumble_state, rumble_lock>>
    /\ UNCHANGED listener_frame

\* a play arm that asks for the effect table again once it has the rumble state
play_lock_rumble_relocks ==
    /\ lpc = "play_lock_rumble"
    /\ rumble_lock = "free"
    /\ rumble_lock' = "listener"
    /\ lpc' = "play_lock_effects"
    /\ UNCHANGED <<thread_fd, device, ev, pending, ff_effects, rumble_state,
                   fx_lock, lhist>>
    /\ UNCHANGED listener_frame

\* rumble_state.lock() inside the effect table's guard
play_lock_rumble ==
    /\ lpc = "play_lock_rumble"
    /\ rumble_lock = "free"
    /\ rumble_lock' = "listener"
    /\ lpc' = "write_large"
    /\ UNCHANGED <<thread_fd, device, ev, pending, ff_effects, rumble_state,
                   fx_lock, lhist>>
    /\ UNCHANGED listener_frame

\* EV_FF with value <= 0: rumble_state.lock()
stop_lock_rumble ==
    /\ lpc = "stop_lock_rumble"
    /\ rumble_lock = "free"
    /\ rumble_lock' = "listener"
    /\ lpc' = "write_large"
    /\ UNCHANGED <<thread_fd, device, ev, pending, ff_effects, rumble_state,
                   fx_lock, lhist>>
    /\ UNCHANGED listener_frame

\* state.large_motor = strong_magnitude / u16::MAX (play), 0.0 (stop)
write_large ==
    /\ lpc = "write_large"
    /\ rumble_state' =
          [rumble_state EXCEPT !.large_motor =
              IF ev[1].value > 0
              THEN rumble_scale(ff_effects[ev[1].code].strong_magnitude)
              ELSE <<0, 1>>]
    /\ lpc' = "write_small"
    /\ UNCHANGED <<thread_fd, device, ev, pending, ff_effects, fx_lock,
                   rumble_lock, lhist>>
    /\ UNCHANGED listener_frame

\* state.small_motor = weak_magnitude / u16::MAX (play), 0.0 (stop)
write_small ==
    /\ lpc = "write_small"
    /\ rumble_state' =
          [rumble_state EXCEPT !.small_motor =
              IF ev[1].value > 0
              THEN rumble_scale(ff_effects[ev[1].code].weak_magnitude)
              ELSE <<0, 1>>]
    /\ lhist' = [lhist EXCEPT !.last_write =
                    IF lhist.found = None THEN DefaultRumble
                    ELSE [large_motor |-> Rat(lhist.found[1].strong_magnitude, U16Max),
                          small_motor |-> Rat(lhist.found[1].weak_magnitude, U16Max)]]
    /\ lpc' = "write_unlock"
    /\ UNCHANGED <<thread_fd, device, ev, pending, ff_effects, fx_lock, rumble_lock>>
    /\ UNCHANGED listener_frame

\* the guards go out of scope: the rumble state first, then the effect table
write_unlock ==
    /\ lpc = "write_unlock"
    /\ rumble_lock' = "free"
    /\ fx_lock' = "free"
    /\ lpc' = "read"
    /\ ev' = None
    /\ lhist' = Finished(lhist)
    /\ UNCHANGED <<thread_fd, device, pending, ff_effects, rumble_state>>
    /\ UNCHANGED listener_frame

\* a listener that returns without closing its descriptor
listener_close_leaks ==
    /\ lpc = "close"
    /\ lpc' = "exited"
    /\ UNCHANGED <<thread_fd, device, ev, pending, ff_effects, rumble_state,
                   fx_lock, rumble_lock, lhist>>
    /\ UNCHANGED listener_frame

\* libc::close(thread_fd) and the end of the thread
listener_close ==
    /\ lpc = "close"
    /\ thread_fd' = "closed"
    /\ device' = device_after_close(device, uinput_fd, "closed")
    /\ lpc' = "exited"
    /\ UNCHANGED <<ev, pending, ff_effects, rumble_state, fx_lock, rumble_lock, lhist>>
    /\ UNCHANGED listener_frame

\* what a step of the foreground on the controller leaves alone
foreground_frame ==
    <<thread_fd, lpc, ev, pending, ff_effects, fx_lock, lhist, wizard_vars, norm_vars, relay_vars>>

\* the foreground calls get_rumble() (app.rs:209)
get_rumble_call ==
    /\ fg = "connected"
    /\ fg' = "get_rumble_lock"
    /\ UNCHANGED <<connected, uinput_file, ff_thread_handle, ff_thread_running,
                   uinput_fd, device, rumble_state, rumble_lock, rumble_ret,
                   teardown, connect_result, out, update_ret>>
    /\ UNCHANGED foreground_frame

\* a get_rumble() that takes the rumble state whoever holds its lock
get_rumble_lock_barges ==
    /\ fg = "get_rumble_lock"
    /\ rumble_lock' = "foreground"
    /\ fg' = "get_rumble_clone"
    /\ UNCHANGED <<connected, uinput_file, ff_thread_handle, ff_thread_running,
                   uinput_fd, device, rumble_state, rumble_ret,
                   teardown, connect_result, out, update_ret>>
    /\ UNCHANGED foreground_frame

\* self.rumble_state.lock()
get_rumble_lock ==
    /\ fg = "get_rumble_lock"
    /\ rumble_lock = "free"
    /\ rumble_lock' = "foreground"
    /\ fg' = "get_rumble_clone"
    /\ UNCHANGED <<connected, uinput_file, ff_thread_handle, ff_thread_running,
                   uinput_fd, device, rumble_state, rumble_ret,
                   teardown, connect_result, out, update_ret>>
    /\ UNCHANGED foreground_frame

\* state.clone()
get_rumble_clone ==
    /\ fg = "get_rumble_clone"
    /\ rumble_ret' = [ret |-> Some(rumble_state), seen |-> Some(lhist.last_write)]
    /\ fg' = "get_rumble_return"
    /\ UNCHANGED <<connected, uinput_file, ff_thread_handle, ff_thread_running,
                   uinput_fd, device, rumble_state, rumble_lock,
                   teardown, connect_result, out, update_ret>>
    /\ UNCHANGED foreground_frame

\* the guard goes out of scope and get_rumble() returns Ok(clone)
get_rumble_return ==
    /\ fg = "get_rumble_return"
    /\ rumble_lock' = "free"
    /\ fg' = "connected"
    /\ UNCHANGED <<connected, uinput_file, ff_thread_handle, ff_thread_running,
                   uinput_fd, device, rumble_state, rumble_ret,
                   teardown, connect_result, out, update_ret>>
    /\ UNCHANGED foreground_frame

\* Drop::drop, entered when the owner lets go of the controller (app.rs:95)
\* or when new() returns the error of connect():
\* self.ff_thread_running.store(false, SeqCst)
drop_clear_flag ==
    /\ fg \in {"connected", "connect_failed"}
    /\ ff_thread_running' = FALSE
    /\ teardown' = Append(teardown, "flag")
    /\ fg' = "drop_join"
    /\ UNCHANGED <<connected, uinput_file, ff_thread_handle, uinput_fd, device,
                   rumble_state, rumble_lock, rumble_ret, connect_result,
                   out, update_ret>>
    /\ UNCHANGED foreground_frame

\* a drop that takes the handle and lets the thread run on
drop_join_detaches ==
    /\ fg = "drop_join"
    /\ ff_thread_handle' = "none"
    /\ teardown' = IF ff_thread_handle = "some" THEN Append(teardown, "join")
                   ELSE teardown
    /\ fg' = "drop_destroy"
    /\ UNCHANGED <<connected, uinput_file, ff_thread_running, uinput_fd, device,
                   rumble_state, rumble_lock, rumble_ret, connect_result,
                   out, update_ret>>
    /\ UNCHANGED foreground_frame

\* if let Some(handle) = self.ff_thread_handle.take() { handle.join() }:
\* join returns when the thread has ended
drop_join ==
    /\ fg = "drop_join"
    /\ ff_thread_handle = "some" => lpc = "exited"
    /\ ff_thread_handle' = "none"
    /\ teardown' = IF ff_thread_handle = "some" THEN Append(teardown, "join")
                   ELSE teardown
    /\ fg' = "drop_destroy"
    /\ UNCHANGED <<connected, uinput_file, ff_thread_running, uinput_fd, device,
                   rumble_state, rumble_lock, rumble_ret, connect_result,
                   out, update_ret>>
    /\ UNCHANGED foreground_frame

\* if let Some(ref file) = self.uinput_file { ioctl(UI_DEV_DESTROY) }
drop_destroy ==
    /\ fg = "drop_destroy"
    /\ device' = IF uinput_file = "some" /\ device = "created" THEN "destroyed"
                 ELSE device
    /\ teardown' = IF uinput_file = "some" THEN Append(teardown, "destroy")
                   ELSE teardown
    /\ fg' = "drop_fields"
    /\ UNCHANGED <<connected, uinput_file, ff_thread_handle, ff_thread_running,
                   uinput_fd, rumble_state, rumble_lock, rumble_ret,
                   connect_result, out, update_ret>>
    /\ UNCHANGED foreground_frame

\* after drop() the fields are dropped: the File in uinput_file closes its
\* descriptor
drop_fields ==
    /\ fg = "drop_fields"
    /\ uinput_fd' = IF uinput_file = "some" THEN "closed" ELSE uinput_fd
    /\ device' = device_after_close(device,
                    IF uinput_file = "some" THEN "closed" ELSE uinput_fd, thread_fd)
    /\ teardown' = IF uinput_file = "some" THEN Append(teardown, "close")
                   ELSE teardown
    /\ uinput_file' = "none"
    /\ fg' = "dropped"
    /\ UNCHANGED <<connected, ff_thread_handle, ff_thread_running,
                   rumble_state, rumble_lock, rumble_ret,
                   connect_result, out, update_ret>>
    /\ UNCHANGED foreground_frame

InitBackend ==
    /\ step = "Welcome"
    /\ config = DefaultConfig
    /\ axis_trackers = <<>>
    /\ captured_axis = None
    /\ captured_button = None
    /\ disk = None
    /\ events = 0
    /\ complete_ret = None
    /\ last = NoCall
    /\ norm = NoNorm
    /\ NoBackend
    /\ NoRelay

\* the steps of the listener thread
Listener ==
    \/ listener_while
    \/ listener_poll
    \/ listener_read
    \/ upload_begin
    \/ upload_store
    \/ upload_end
    \/ erase_begin
    \/ erase_remove
    \/ erase_end
    \/ play_lock_effects
    \/ play_lock_rumble
    \/ stop_lock_rumble
    \/ write_large
    \/ write_small
    \/ write_unlock
    \/ listener_close

\* the steps of the thread that owns the controller
Foreground ==
    \/ connect
    \/ get_rumble_call
    \/ get_rumble_lock
    \/ get_rumble_clone
    \/ get_rumble_return
    \/ drop_clear_flag
    \/ drop_join
    \/ drop_destroy
    \/ drop_fields

NextBackend == Listener \/ Foreground \/ kernel_event

SpecBackend == InitBackend /\ [][NextBackend]_vars

\* both threads are scheduled again and again; the kernel is free to queue
\* events or not
SpecBackendFair ==
    SpecBackend /\ WF_vars(Listener) /\ WF_vars(Foreground)

\* ------------------------------- the listener watched from the game's side
\* The request handlers and the end of a play or stop handler once more, with
\* the history of what the game has asked for: the program state changes as
\* in upload_begin, upload_end, erase_begin, erase_end and write_unlock.

\* the request kind an upload of the effect type t is recorded as
Kind(t) == IF t = "FF_RUMBLE" THEN "rumble" ELSE "other"

\* The kernel queues an event.  It serves one upload or erase request at a
\* time (the requester waits in the ioctl until the listener's END), and it
\* refuses an upload that would change the type of an effect it holds: the
\* id has to be erased first.
game_kernel_event ==
    /\ device = "created"
    /\ pending = None
    /\ \E e \in KernelEvents :
          /\ IF e.type_ # "EV_UINPUT" \/ ev = None THEN TRUE
             ELSE ev[1].type_ # "EV_UINPUT"
          /\ IF e.type_ = "EV_UINPUT" /\ e.code = "UI_FF_UPLOAD"
             THEN lhist.req[e.req[1].id] \in {"none", "erase", Kind(e.req[1].type_)}
             ELSE TRUE
          /\ pending' = Some(e)
    /\ UNCHANGED <<fg, connected, uinput_file, ff_thread_handle, ff_thread_running,
                   uinput_fd, thread_fd, device, lpc, ev, ff_effects, rumble_state,
                   fx_lock, rumble_lock, rumble_ret, lhist, teardown,
                   connect_result, out, update_ret>>
    /\ UNCHANGED <<wizard_vars, norm_vars, relay_vars>>

\* a UI_FF_UPLOAD arm that ends the upload only for rumble effects
game_upload_begin_rumble_only ==
    /\ lpc = "upload_begin"
    /\ \E ok \in BOOLEAN :
          IF ok
          THEN /\ lpc' = IF ev[1].req[1].type_ = "FF_RUMBLE"
                         THEN "upload_store" ELSE "read"
               /\ lhist' = [lhist EXCEPT !.open = @ + 1]
               /\ ev' = IF ev[1].req[1].type_ = "FF_RUMBLE" THEN ev ELSE None
          ELSE /\ lpc' = "read"
               /\ ev' = None
               /\ lhist' = Finished(lhist)
    /\ UNCHANGED <<thread_fd, device, pending, ff_effects, rumble_state,
                   fx_lock, rumble_lock>>
    /\ UNCHANGED listener_frame

\* ioctl(UI_BEGIN_FF_UPLOAD)
game_upload_begin ==
    /\ lpc = "upload_begin"
    /\ \E ok \in BOOLEAN :
          IF ok
          THEN /\ lpc' = IF ev[1].req[1].type_ = "FF_RUMBLE"
                         THEN "upload_store" ELSE "upload_end"
               /\ lhist' = [lhist EXCEPT !.open = @ + 1]
               /\ UNCHANGED ev
          ELSE /\ lpc' = "read"
               /\ ev' = None
               /\ lhist' = Finished(lhist)
    /\ UNCHANGED <<thread_fd, device, pending, ff_effects, rumble_state,
                   fx_lock, rumble_lock>>
    /\ UNCHANGED listener_frame

\* ioctl(UI_END_FF_UPLOAD)
game_upload_end ==
    /\ lpc = "upload_end"
    /\ lpc' = "read"
    /\ ev' = None
    /\ lhist' = [Finished(lhist) EXCEPT
                    !.open = @ - 1,
                    !.req[ev[1].req[1].id] = Kind(ev[1].req[1].type_)]
    /\ UNCHANGED <<thread_fd, device, pending, ff_effects, rumble_state,
                   fx_lock, rumble_lock>>
    /\ UNCHANGED listener_frame

\* ioctl(UI_BEGIN_FF_ERASE)
game_erase_begin ==
    /\ lpc = "erase_begin"
    /\ \E ok \in BOOLEAN :
          IF ok
          THEN /\ lpc' = "erase_remove"
               /\ lhist' = [lhist EXCEPT !.open = @ + 1]
               /\ UNCHANGED ev
          ELSE /\ lpc' = "read"
               /\ ev' = None
               /\ lhist' = Finished(lhist)
    /\ UNCHANGED <<thread_fd, device, pending, ff_effects, rumble_state,
                   fx_lock, rumble_lock>>
    /\ UNCHANGED listener_frame

\* ioctl(UI_END_FF_ERASE); the kernel stops an effect it erases
game_erase_end ==
    /\ lpc = "erase_end"
    /\ lpc' = "read"
    /\ ev' = None
    /\ lhist' = [Finished(lhist) EXCEPT
                    !.open = @ - 1,
                    !.req[ev[1].req[1].id] = "erase",
                    !.playing = @ \ {ev[1].req[1].id}]
    /\ UNCHANGED <<thread_fd, device, pending, ff_effects, rumble_state,
                   fx_lock, rumble_lock>>
    /\ UNCHANGED listener_frame

\* the end of a play or stop handler that wrote the rumble state
game_write_unlock ==
    /\ lpc = "write_unlock"
    /\ rumble_lock' = "free"
    /\ fx_lock' = "free"
    /\ lpc' = "read"
    /\ ev' = None
    /\ lhist' = [Finished(lhist) EXCEPT
                    !.playing = IF ev[1].value > 0 THEN @ \cup {ev[1].code}
                                ELSE @ \ {ev[1].code}]
    /\ UNCHANGED <<thread_fd, device, pending, ff_effects, rumble_state>>
    /\ UNCHANGED listener_frame

NextGame ==
    \/ connect
    \/ game_kernel_event
    \/ listener_while
    \/ listener_poll
    \/ listener_read
    \/ game_upload_begin
    \/ upload_store
    \/ game_upload_end
    \/ game_erase_begin
    \/ erase_remove
    \/ game_erase_end
    \/ play_lock_effects
    \/ play_lock_rumble
    \/ stop_lock_rumble
    \/ write_large
    \/ write_small
    \/ game_write_unlock
    \/ listener_close
    \/ drop_clear_flag
    \/ drop_join
    \/ drop_destroy
    \/ drop_fields

SpecGame == InitBackend /\ [][NextGame]_vars

\* ------------------------------------------------------------- update()
\* update() calls accepted over one run
MaxUpdates == 2

\* the (type, code) of the field events of one snapshot, in the order update()
\* writes them
FrameFields ==
    <<(<<"EV_ABS", "ABS_X">>), (<<"EV_ABS", "ABS_Y">>), (<<"EV_ABS", "ABS_RX">>),
      (<<"EV_ABS", "ABS_RY">>), (<<"EV_ABS", "ABS_Z">>), (<<"EV_ABS", "ABS_RZ">>),
      (<<"EV_KEY", "BTN_A">>), (<<"EV_KEY", "BTN_B">>), (<<"EV_KEY", "BTN_X">>),
      (<<"EV_KEY", "BTN_Y">>), (<<"EV_KEY", "BTN_TL">>), (<<"EV_KEY", "BTN_TR">>),
      (<<"EV_KEY", "BTN_SELECT">>), (<<"EV_KEY", "BTN_START">>),
      (<<"EV_KEY", "BTN_MODE">>), (<<"EV_KEY", "BTN_THUMBL">>),
      (<<"EV_KEY", "BTN_THUMBR">>), (<<"EV_ABS", "ABS_HAT0X">>),
      (<<"EV_ABS", "ABS_HAT0Y">>)>>

\* InputEvent::new(type_, code, value); snap names the snapshot the value is
\* taken from
InputEvent(f, snap) == [type_ |-> f[1], code |-> f[2], snap |-> snap]

\* the events of the first k write_event calls of update() on snapshot snap
field_events(k, snap) == [i \in 1..k |-> InputEvent(FrameFields[i], snap)]

\* sync(): write_event(EV_SYN, SYN_REPORT, 0), then flush() of the File
sync(snap) == <<InputEvent(<<"EV_SYN", "SYN_REPORT">>, snap)>>

\* update() whose error path still reports what it has written
update_writes_syncs_on_error(fail_at, snap) ==
    IF fail_at = 0 \/ fail_at > Len(FrameFields)
    THEN field_events(Len(FrameFields), snap) \o sync(snap)
    ELSE field_events(fail_at - 1, snap) \o sync(snap)

\* what update() has written when its write number fail_at fails (0: none
\* fails): every write before the failing one, and SYN_REPORT after all
\* field events
update_writes(fail_at, snap) ==
    IF fail_at = 0 THEN field_events(Len(FrameFields), snap) \o sync(snap)
    ELSE field_events(fail_at - 1, snap)

\* update(state): nothing when not connected; otherwise the field events and
\* the sync, up to the first write_all that fails
update ==
    /\ fg = "connected"
    /\ update_ret # None => update_ret[1].snap < MaxUpdates
    /\ LET snap == IF update_ret = None THEN 1 ELSE update_ret[1].snap + 1 IN
       \E fail_at \in 0..(Len(FrameFields) + 1) :
          IF ~connected
          THEN /\ update_ret' = Some([snap |-> snap, ok |-> TRUE])
               /\ UNCHANGED out
          ELSE /\ out' = IF uinput_file = "some"
                         THEN out \o update_writes(fail_at, snap) ELSE out
               /\ update_ret' = Some([snap |-> snap,
                                      ok |-> (fail_at = 0 \/ uinput_file # "some")])
    /\ UNCHANGED <<fg, connected, uinput_file, ff_thread_handle, ff_thread_running,
                   uinput_fd, thread_fd, device, lpc, ev, pending, ff_effects,
                   rumble_state, fx_lock, rumble_lock, rumble_ret, lhist, teardown,
                   connect_result>>
    /\ UNCHANGED <<wizard_vars, norm_vars, relay_vars>>

NextUpdate == connect \/ update

SpecUpdate == InitBackend /\ [][NextUpdate]_vars

\* =============================================== the force-feedback relay
\* calls of new, apply_rumble, stop, finish_calibration and process_inputs in
\* one run
MaxCalls == 4
\* /dev/input/event* nodes present when auto_detect() scans them
MaxNodes == 2

\* i16::MAX, the largest level of an evdev constant effect
I16Max == 32767
\* DI_FFNOMINALMAX, the largest magnitude of a DirectInput constant force
DIMax == 10000

Platforms == {"linux", "windows"}

Zero == <<0, 1>>
One == <<1, 1>>
RatSub(p, q) == Rat(p[1] * q[2] - q[1] * p[2], p[2] * q[2])
RatTimes(p, k) == Rat(p[1] * k, p[2])
\* `as` from f32 to an integer type rounds toward zero ...
Truncate(p) == IF p[1] >= 0 THEN p[1] \div p[2] ELSE -((-p[1]) \div p[2])
\* ... and saturates at the ends of the type
Saturate(x, lo, hi) == IF x < lo THEN lo ELSE IF x > hi THEN hi ELSE x

\* RumbleState (large_motor, small_motor) handed to apply_rumble: values whose
\* f32 arithmetic is exact, inside and outside 0.0 ..= 1.0
RumbleInputs ==
    {<<Zero, Zero>>, <<One, Zero>>, <<Zero, One>>, <<One, One>>, <<<<1, 4>>, One>>,
     <<<<3, 4>>, <<1, 4>>>>, <<<<3, 2>>, Zero>>, <<Zero, <<3, 2>>>>,
     <<<<-1, 2>>, <<1, 4>>>>}
\* what get_rumble() returns: both backends store values of 0.0 ..= 1.0
AppRumbleInputs == {<<Zero, Zero>>, <<One, Zero>>, <<<<1, 4>>, One>>}

\* the level without the two clamps
force_level_unclamped(large, small) ==
    Saturate(Truncate(RatTimes(RatSub(large, small), I16Max)), -I16Max - 1, I16Max)

\* linux: ((large.clamp(0.0, 1.0) - small.clamp(0.0, 1.0)) * 32767.0) as i16
force_level(large, small) ==
    Saturate(Truncate(RatTimes(RatSub(Clamp(large, Zero, One),
                                      Clamp(small, Zero, One)), I16Max)),
             -I16Max - 1, I16Max)

\* windows: ((large - small) * 10000.0) as i32 of the clamped values; the
\* product is far inside i32
magnitude(large, small) ==
    Truncate(RatTimes(RatSub(Clamp(large, Zero, One), Clamp(small, Zero, One)), DIMax))

\* what a relay function leaves: the relay, the device operations it made, its
\* result, whether it wrote a warning, and the level the device accepted
Res(r, log, ret, logged, level) ==
    [ff |-> r, log |-> log, ret |-> ret, logged |-> logged, level |-> level]

RECURSIVE Count(_, _)
Count(log, x) ==
    IF log = <<>> THEN 0
    ELSE (IF Head(log) = x THEN 1 ELSE 0) + Count(Tail(log), x)

\* ---------------------------------------------------------- linux (evdev)
\* what Device::open and upload_ff_effect do on a device node
NodeKinds == {"open_fails", "no_ff", "ff_no_effect", "ff"}

Nodes == UNION {[1..n -> NodeKinds] : n \in 0..MaxNodes}

\* create_constant_effect(): upload the effect to the device
create_constant_effect(r, ok, id) ==
    IF ~r.device THEN Res(r, <<>>, "err", FALSE, None)
    ELSE IF ok
    THEN Res([r EXCEPT !.effect = Some(id)], <<"create_effect">>, "ok", FALSE, None)
    ELSE Res(r, <<"create_effect_failed">>, "err", TRUE, None)

\* connect(path)
relay_connect(r, kind, id) ==
    IF kind = "open_fails" THEN Res(r, <<>>, "err", FALSE, None)
    ELSE IF kind = "no_ff"
    THEN Res(r, <<"open_device", "release_device">>, "err", FALSE, None)
    ELSE LET held == [r EXCEPT !.device = TRUE, !.available = TRUE]
             c == create_constant_effect(held, kind = "ff", id)
         IN  Res(c.ff, <<"open_device">> \o c.log, c.ret, c.logged, None)

\* auto_detect(): the nodes that exist, in the order of their numbers
RECURSIVE auto_detect_from(_, _, _, _, _)
auto_detect_from(r, nodes, i, id, log) ==
    IF i > Len(nodes) THEN Res(r, log, "ok", TRUE, None)
    ELSE IF nodes[i] = "open_fails" THEN auto_detect_from(r, nodes, i + 1, id, log)
    ELSE IF nodes[i] = "no_ff"
    THEN auto_detect_from(r, nodes, i + 1, id,
                          log \o <<"open_device", "release_device">>)
    ELSE LET held == [r EXCEPT !.device = TRUE, !.available = TRUE]
             c == create_constant_effect(held, nodes[i] = "ff", id)
         IN  IF c.ret = "err"
             THEN auto_detect_from([c.ff EXCEPT !.device = FALSE, !.available = FALSE],
                                   nodes, i + 1, id,
                                   log \o <<"open_device">> \o c.log
                                       \o <<"release_device">>)
             ELSE Res(c.ff, log \o <<"open_device">> \o c.log, "ok", FALSE, None)

\* an auto_detect() that returns an error when it finds no device
auto_detect_or_fail(r, nodes, id) ==
    LET a == auto_detect_from(r, nodes, 1, id, <<>>) IN
    IF a.ff.available THEN a ELSE [a EXCEPT !.ret = "err"]

auto_detect(r, nodes, id) == auto_detect_from(r, nodes, 1, id, <<>>)

\* stop()
stop_linux(r, o) ==
    IF ~r.available THEN Res(r, <<>>, "ok", FALSE, None)
    ELSE IF r.effect # None
    THEN IF o = "stop_fails"
         THEN Res([r EXCEPT !.effect = None],
                  <<"stop_effect_failed", "erase_effect">>, "err", FALSE, None)
         ELSE Res([r EXCEPT !.effect = None, !.effect_playing = FALSE],
                  <<"stop_effect", "erase_effect">>, "ok", FALSE, None)
    ELSE Res([r EXCEPT !.effect_playing = FALSE], <<>>, "ok", FALSE, None)

\* Drop: stop(), then the fields in the order of their declaration
drop_linux(r, o) ==
    LET s == stop_linux(r, o) IN
    Res(NewRelay,
        s.log \o (IF s.ff.device THEN <<"release_device">> ELSE <<>>)
              \o (IF s.ff.effect # None THEN <<"erase_effect">> ELSE <<>>),
        "ok", s.ret = "err", None)

\* new(device_path): what it returns, and in built the relay as connect() or
\* auto_detect() left it; when they fail the relay is dropped at once
new_linux(device_path, nodes, id, o) ==
    LET a == IF device_path = None THEN auto_detect(NewRelay, nodes, id)
             ELSE relay_connect(NewRelay, device_path[1], id)
        d == drop_linux(a.ff, o)
    IN  [ff |-> IF a.ret = "ok" THEN a.ff ELSE NewRelay,
         built |-> a.ff,
         log |-> IF a.ret = "ok" THEN a.log ELSE a.log \o d.log,
         ret |-> a.ret,
         logged |-> a.logged,
         path |-> device_path,
         teardown |-> IF a.ret = "ok" THEN <<>> ELSE d.log]

\* apply_rumble(rumble)
apply_rumble_linux(r, large, small, o, id) ==
    IF ~r.available THEN Res(r, <<>>, "ok", FALSE, None)
    ELSE LET c == IF r.effect = None
                  THEN create_constant_effect(r, o # "create_fails", id)
                  ELSE Res(r, <<>>, "ok", FALSE, None)
             level == force_level(large, small)
         IN  IF c.ret = "err" THEN c
             ELSE IF c.ff.effect = None THEN c
             ELSE IF o \in {"update_fails", "update_fails_twice"}
             THEN Res(c.ff, c.log \o <<"update_failed">>, "err", FALSE, None)
             ELSE IF c.ff.effect_playing
             THEN Res(c.ff, c.log \o <<"update">>, "ok", FALSE, Some(level))
             ELSE IF o = "play_fails"
             THEN Res(c.ff, c.log \o <<"update", "start_failed">>, "err", FALSE,
                      Some(level))
             ELSE Res([c.ff EXCEPT !.effect_playing = TRUE],
                      c.log \o <<"update", "start">>, "ok", FALSE, Some(level))

\* ---------------------------------------------------- windows (DirectInput)
\* the calls of initialize() and create_effect() that can fail, in order
InitSteps ==
    <<"load_library", "get_proc", "get_module", "create_dinput", "find_device",
      "set_data_format", "cooperative_level", "auto_center", "acquire",
      "create_effect", "start">>

InitFailures == {InitSteps[i] : i \in 1..Len(InitSteps)} \cup {"none"}

\* create_effect(): CreateEffect, then Start, whose failure is only logged
create_effect(r, fail_at, id) ==
    IF fail_at = "create_effect"
    THEN Res(r, <<"create_effect_failed">>, "err", FALSE, None)
    ELSE IF fail_at = "start"
    THEN Res([r EXCEPT !.effect = Some(id)], <<"create_effect", "start_failed">>,
             "ok", TRUE, None)
    ELSE Res([r EXCEPT !.effect = Some(id), !.effect_playing = TRUE],
             <<"create_effect", "start">>, "ok", FALSE, None)

\* initialize(): every error return leaves the fields as they are
initialize(r, fail_at, id) ==
    IF fail_at \in {"load_library", "get_proc", "get_module", "create_dinput"}
    THEN Res(r, <<>>, "err", FALSE, None)
    ELSE LET r1 == [r EXCEPT !.dinput = TRUE] IN
    IF fail_at = "find_device"
    THEN Res(r1, <<"create_dinput">>, "err", FALSE, None)
    ELSE LET r2 == [r1 EXCEPT !.device = TRUE] IN
    IF \/ fail_at \in {"set_data_format", "cooperative_level"}
       \/ ~r.message_window
    THEN Res(r2, <<"create_dinput", "open_device">>, "err", FALSE, None)
    ELSE IF fail_at = "acquire"
    THEN Res(r2, <<"create_dinput", "open_device", "acquire_failed">>, "err",
             FALSE, None)
    ELSE LET c == create_effect(r2, fail_at, id)
             log == <<"create_dinput", "open_device", "acquire">> \o c.log
         IN  IF c.ret = "err" THEN Res(c.ff, log, "err", FALSE, None)
             ELSE Res([c.ff EXCEPT !.available = TRUE], log, "ok",
                      c.logged \/ fail_at = "auto_center", None)

\* stop(): the result of the effect's Stop is dropped
stop_windows(r, o) ==
    IF ~r.available \/ r.effect = None THEN Res(r, <<>>, "ok", FALSE, None)
    ELSE Res([r EXCEPT !.effect_playing = FALSE],
             <<IF o = "stop_fails" THEN "stop_effect_failed" ELSE "stop_effect">>,
             "ok", FALSE, None)

\* a Drop that lets go of the device before the effect
drop_windows_device_first(r, o) ==
    LET s == stop_windows(r, o) IN
    Res(NewRelay,
        s.log \o (IF r.device THEN <<"unacquire", "release_device">> ELSE <<>>)
              \o (IF r.effect # None THEN <<"erase_effect", "release_effect">>
                  ELSE <<>>)
              \o (IF r.dinput THEN <<"release_dinput">> ELSE <<>>)
              \o (IF r.message_window THEN <<"destroy_window">> ELSE <<>>)
              \o (IF r.com_initialized THEN <<"co_uninitialize">> ELSE <<>>),
        "ok", FALSE, None)

\* Drop: stop(), Unload and Release of the effect, Unacquire and Release of
\* the device, Release of the DirectInput object, DestroyWindow, CoUninitialize
drop_windows(r, o) ==
    LET s == stop_windows(r, o) IN
    Res(NewRelay,
        s.log \o (IF r.effect # None THEN <<"erase_effect", "release_effect">>
                  ELSE <<>>)
              \o (IF r.device THEN <<"unacquire", "release_device">> ELSE <<>>)
              \o (IF r.dinput THEN <<"release_dinput">> ELSE <<>>)
              \o (IF r.message_window THEN <<"destroy_window">> ELSE <<>>)
              \o (IF r.com_initialized THEN <<"co_uninitialize">> ELSE <<>>),
        "ok", FALSE, None)

\* new(_device_path): always Ok, a failure of initialize() is only logged
new_windows(com, window, fail_at, id) ==
    LET r0 == [NewRelay EXCEPT !.com_initialized = com, !.message_window = window]
        i == initialize(r0, fail_at, id)
    IN  [ff |-> i.ff, built |-> i.ff, log |-> i.log, ret |-> "ok",
         logged |-> (i.ret = "err" \/ i.logged \/ ~window),
         path |-> None, teardown |-> <<>>]

\* update_force(magnitude): SetParameters with DIEP_START updates the effect
\* and starts it (again); after a failure one Acquire, one Poll and one more
\* SetParameters, whose failure is only logged
update_force(r, m, o) ==
    IF r.effect = None \/ ~r.available THEN Res(r, <<>>, "ok", FALSE, None)
    ELSE IF o = "update_fails"
    THEN Res(r, <<"poll", "update_failed", "acquire", "poll", "update", "start">>,
             "ok", FALSE, Some(m))
    ELSE IF o = "update_fails_twice"
    THEN Res(r, <<"poll", "update_failed", "acquire", "poll", "update_failed">>,
             "ok", TRUE, None)
    ELSE Res(r, <<"poll", "update", "start">>, "ok", FALSE, Some(m))

\* apply_rumble(rumble)
apply_rumble_windows(r, large, small, o) ==
    IF ~r.available THEN Res(r, <<>>, "ok", FALSE, None)
    ELSE update_force(r, magnitude(large, small), o)

\* ------------------------------------------------------ either platform
ApplyOutcomes ==
    {"ok", "create_fails", "update_fails", "update_fails_twice", "play_fails"}

StopOutcomes == {"ok", "stop_fails"}

apply_rumble_on(p, r, large, small, o, id) ==
    IF p = "linux" THEN apply_rumble_linux(r, large, small, o, id)
    ELSE apply_rumble_windows(r, large, small, o)

stop_on(p, r, o) == IF p = "linux" THEN stop_linux(r, o) ELSE stop_windows(r, o)

drop_on(p, r, o) == IF p = "linux" THEN drop_linux(r, o) ELSE drop_windows(r, o)

\* the results ForceFeedbackDevice::new can have: on linux for a path or for
\* the nodes auto_detect() finds, on windows for the call that fails
NewResults(p, paths, id) ==
    IF p = "linux"
    THEN {new_linux(d, n, id, o) :
             d \in paths, n \in Nodes, o \in StopOutcomes}
    ELSE {new_windows(com, window, f, id) :
             com \in BOOLEAN, window \in BOOLEAN, f \in InitFailures}

Created(log) == Count(log, "create_effect")
Started(log) == Count(log, "start")

\* ------------------------------------- the application and its controller
\* why VirtualXboxController::new() fails. Linux: the errno of opening
\* /dev/uinput, or a later step. Windows: the vigem_client error of
\* Client::connect(), or a later step.
VcFailures(p) ==
    IF p = "linux" THEN {"ENOENT", "EACCES", "later"}
    ELSE {"BusNotFound", "BusAccessFailed", "later"}

\* Display of the std::io::Error of the open, Debug of the vigem_client error
error_text(cause) ==
    CASE cause = "ENOENT" -> "No such file or directory (os error 2)"
      [] cause = "EACCES" -> "Permission denied (os error 13)"
      [] cause = "BusNotFound" -> "BusNotFound"
      [] cause = "BusAccessFailed" -> "BusAccessFailed(5)"
      [] OTHER -> "other"

\* a message that leaves the cause out
vc_error_without_cause(p, cause) ==
    IF p = "linux"
    THEN <<"Failed to open /dev/uinput. Try: sudo chmod 666 /dev/uinput">>
    ELSE <<"Failed to connect to ViGEmBus. Make sure ViGEmBus driver is installed">>

\* the anyhow error new() returns: the format string with its argument
vc_error(p, cause) ==
    IF cause = "later" THEN <<"Failed at a later step">>
    ELSE IF p = "linux"
    THEN <<"Failed to open /dev/uinput: ", error_text(cause),
           ". Try: sudo chmod 666 /dev/uinput">>
    ELSE <<"Failed to connect to ViGEmBus: ", error_text(cause),
           ". Make sure ViGEmBus driver is installed">>

\* what VirtualXboxController::new() returns when it ends as c
vc_new(p, c) == IF c = "ok" THEN None ELSE Some(vc_error(p, c))

InitRelay ==
    /\ step = "Welcome"
    /\ config = DefaultConfig
    /\ axis_trackers = <<>>
    /\ captured_axis = None
    /\ captured_button = None
    /\ disk = None
    /\ events = 0
    /\ complete_ret = None
    /\ last = NoCall
    /\ norm = NoNorm
    /\ NoBackend
    /\ plat \in Platforms
    /\ app = NoApp
    /\ holder = "none"
    /\ ff = NewRelay
    /\ made = 0
    /\ rcall = NoRelayCall
    /\ run = NoRun
    /\ calls = 0

relay_frame == <<wizard_vars, norm_vars, backend_vars, plat>>

\* ForceFeedbackDevice::new(device_path) called directly
new ==
    /\ app.mode = "none"
    /\ holder = "none"
    /\ calls < MaxCalls
    /\ \E n \in NewResults(plat, {None} \cup {Some(k) : k \in NodeKinds}, made + 1) :
          /\ ff' = n.ff
          /\ holder' = IF n.ret = "ok" THEN "direct" ELSE "none"
          /\ made' = made + Created(n.log)
          /\ run' = [created |-> Created(n.log), started |-> Started(n.log),
                     applied |-> 0]
          /\ rcall' = [NoRelayCall EXCEPT !.op = "new", !.built = n.built,
                                          !.log = n.log, !.ret = n.ret,
                                          !.logged = n.logged,
                                          !.prior = rcall.op, !.path = n.path,
                                          !.torn = IF n.ret = "ok" THEN NewRelay
                                                   ELSE n.built,
                                          !.teardown = n.teardown,
                                          !.alive = IF n.ret = "ok" THEN 1 ELSE 0]
    /\ calls' = calls + 1
    /\ UNCHANGED <<app, relay_frame>>

\* apply_rumble(rumble) called on the relay
apply_rumble ==
    /\ holder = "direct"
    /\ calls < MaxCalls
    /\ \E rumble \in RumbleInputs, o \in ApplyOutcomes :
          LET large == rumble[1]
              small == rumble[2]
              a == apply_rumble_on(plat, ff, large, small, o, made + 1)
          IN
          /\ ff' = a.ff
          /\ made' = made + Created(a.log)
          /\ run' = [created |-> run.created + Created(a.log),
                     started |-> run.started + Started(a.log),
                     applied |-> run.applied
                                 + (IF a.ret = "ok" /\ ff.available THEN 1 ELSE 0)]
          /\ rcall' = [NoRelayCall EXCEPT !.op = "apply_rumble", !.large = large,
                                          !.small = small, !.outcome = o,
                                          !.before = ff, !.log = a.log,
                                          !.ret = a.ret, !.logged = a.logged,
                                          !.level = a.level,
                                          !.prior = rcall.op]
    /\ calls' = calls + 1
    /\ UNCHANGED <<app, holder, relay_frame>>

\* stop() called on the relay
stop ==
    /\ holder = "direct"
    /\ calls < MaxCalls
    /\ \E o \in StopOutcomes :
          LET s == stop_on(plat, ff, o) IN
          /\ ff' = s.ff
          /\ rcall' = [NoRelayCall EXCEPT !.op = "stop", !.outcome = o,
                                          !.before = ff, !.log = s.log,
                                          !.ret = s.ret, !.logged = s.logged,
                                          !.prior = rcall.op]
    /\ run' = NoRun
    /\ calls' = calls + 1
    /\ UNCHANGED <<app, holder, made, relay_frame>>

\* the relay is dropped
drop ==
    /\ holder = "direct"
    /\ \E o \in StopOutcomes :
          LET d == drop_on(plat, ff, o) IN
          /\ ff' = d.ff
          /\ rcall' = [NoRelayCall EXCEPT !.op = "drop", !.outcome = o,
                                          !.before = ff, !.log = d.log,
                                          !.ret = d.ret, !.logged = d.logged,
                                          !.prior = rcall.op, !.torn = ff,
                                          !.teardown = d.log]
    /\ holder' = "none"
    /\ run' = NoRun
    /\ UNCHANGED <<app, made, calls, relay_frame>>

\* RoWheelApp::new: Running with a virtual controller when a complete profile
\* was loaded, Calibrating otherwise; force_feedback starts as None
app_new ==
    /\ app.mode = "none"
    /\ holder = "none"
    /\ \E has_config \in BOOLEAN, c \in VcFailures(plat) \cup {"ok"} :
          LET v == vc_new(plat, c) IN
          IF has_config
          THEN /\ app' = [app EXCEPT !.mode = "Running",
                                     !.virtual_controller = (v = None),
                                     !.vc_error = v]
               /\ rcall' = [NoRelayCall EXCEPT !.op = "app_new",
                                               !.prior = rcall.op, !.cause = c,
                                               !.vcs = IF v = None THEN 1 ELSE 0]
          ELSE /\ app' = [app EXCEPT !.mode = "Calibrating"]
               /\ rcall' = [NoRelayCall EXCEPT !.op = "app_new",
                                               !.prior = rcall.op]
    /\ UNCHANGED <<holder, ff, made, run, calls, relay_frame>>

\* a start_calibration() that leaves the virtual controller connected
start_calibration_keeps_controller ==
    /\ app.mode = "Running"
    /\ app' = [app EXCEPT !.mode = "Calibrating"]
    /\ rcall' = [NoRelayCall EXCEPT !.op = "start_calibration", !.prior = rcall.op,
                                    !.before = ff,
                                    !.vcs = IF app.virtual_controller THEN 1 ELSE 0]
    /\ UNCHANGED <<holder, ff, made, run, calls, relay_frame>>

\* start_calibration(): the virtual controller is dropped, the relay is kept
start_calibration ==
    /\ app.mode = "Running"
    /\ app' = [app EXCEPT !.mode = "Calibrating", !.virtual_controller = FALSE]
    /\ rcall' = [NoRelayCall EXCEPT !.op = "start_calibration", !.prior = rcall.op,
                                    !.before = ff]
    /\ UNCHANGED <<holder, ff, made, run, calls, relay_frame>>

\* finish_calibration(): a new virtual controller, then ForceFeedbackDevice::
\* new(None); the relay is stored when it is available, which drops the relay
\* stored before, and is dropped otherwise
finish_calibration ==
    /\ app.mode = "Calibrating"
    /\ calls < MaxCalls
    /\ \E c \in VcFailures(plat) \cup {"ok"},
          n \in NewResults(plat, {None}, made + 1), o \in StopOutcomes :
          LET v == vc_new(plat, c)
              keep == n.ret = "ok" /\ n.ff.available
              gone == IF keep
                      THEN IF holder = "app" THEN drop_on(plat, ff, o).log ELSE <<>>
                      ELSE IF n.ret = "ok" THEN drop_on(plat, n.ff, o).log
                      ELSE <<>>
          IN  /\ app' = [app EXCEPT
                           !.mode = "Running",
                           !.virtual_controller =
                               IF v = None THEN TRUE ELSE app.virtual_controller,
                           !.status_message =
                               IF v = None THEN <<"Gamepad connected">>
                               ELSE <<"Failed to create gamepad: ">> \o v[1],
                           !.vc_error = v,
                           !.force_feedback = (keep \/ app.force_feedback),
                           !.probe = IF keep THEN "available" ELSE "unavailable"]
              /\ ff' = IF keep THEN n.ff ELSE ff
              /\ holder' = IF keep THEN "app" ELSE holder
              /\ made' = made + Created(n.log)
              /\ run' = IF keep
                        THEN [created |-> Created(n.log), started |-> Started(n.log),
                              applied |-> 0]
                        ELSE run
              /\ rcall' = [NoRelayCall EXCEPT !.op = "finish_calibration",
                                              !.prior = rcall.op, !.before = ff,
                                              !.built = n.built,
                                              !.log = n.log \o gone,
                                              !.ret = n.ret, !.logged = n.logged,
                                              !.path = n.path, !.cause = c,
                                              !.torn = IF ~keep THEN n.ff
                                                       ELSE IF holder = "app"
                                                       THEN ff ELSE NewRelay,
                                              !.teardown = gone,
                                              !.vcs = (IF app.virtual_controller
                                                       THEN 1 ELSE 0)
                                                      + (IF v = None THEN 1 ELSE 0),
                                              !.alive = (IF holder = "app"
                                                         THEN 1 ELSE 0)
                                                        + (IF n.ret = "ok"
                                                           THEN 1 ELSE 0)]
    /\ calls' = calls + 1
    /\ UNCHANGED relay_frame

\* process_inputs() of a frame in Running mode: update(), get_rumble(), and
\* apply_rumble on the stored relay, whose error is logged
process_inputs ==
    /\ app.mode = "Running"
    /\ calls < MaxCalls
    /\ \E got \in BOOLEAN, rumble \in AppRumbleInputs, o \in ApplyOutcomes :
          IF app.virtual_controller /\ got /\ app.force_feedback
          THEN LET large == rumble[1]
                   small == rumble[2]
                   a == apply_rumble_on(plat, ff, large, small, o, made + 1)
               IN
               /\ ff' = a.ff
               /\ made' = made + Created(a.log)
               /\ run' = [created |-> run.created + Created(a.log),
                          started |-> run.started + Started(a.log),
                          applied |-> run.applied
                                      + (IF a.ret = "ok" /\ ff.available
                                         THEN 1 ELSE 0)]
               /\ rcall' = [NoRelayCall EXCEPT
                              !.op = "process_inputs", !.prior = rcall.op,
                              !.large = large, !.small = small, !.outcome = o,
                              !.before = ff, !.log = a.log, !.ret = a.ret,
                              !.logged = (a.logged \/ a.ret = "err"),
                              !.level = a.level, !.updated = TRUE,
                              !.vcs = 1,
                              !.steps = <<"update", "get_rumble", "apply_rumble">>]
          ELSE /\ rcall' = [NoRelayCall EXCEPT
                              !.op = "process_inputs", !.prior = rcall.op,
                              !.before = ff, !.updated = app.virtual_controller,
                              !.vcs = IF app.virtual_controller THEN 1 ELSE 0,
                              !.steps = IF ~app.virtual_controller THEN <<>>
                                        ELSE IF got
                                        THEN <<"update", "get_rumble">>
                                        ELSE <<"update", "get_rumble_failed">>]
               /\ UNCHANGED <<ff, made, run>>
    /\ app' = [app EXCEPT !.updates = IF app.virtual_controller THEN @ + 1 ELSE @]
    /\ calls' = calls + 1
    /\ UNCHANGED <<holder, relay_frame>>

NextRelay ==
    \/ new
    \/ apply_rumble
    \/ stop
    \/ drop
    \/ app_new
    \/ start_calibration
    \/ finish_calibration
    \/ process_inputs

SpecRelay == InitRelay /\ [][NextRelay]_vars

\* ================================================================= claims
StepOrder ==
    <<"Welcome", "SteeringLeft", "SteeringRight", "ThrottlePressed",
      "ThrottleReleased", "BrakePressed", "BrakeReleased", "ClutchPressed",
      "ClutchReleased", "ShiftUp", "ShiftDown", "Complete">>

StepIndex(s) == CHOOSE i \in 1..Len(StepOrder) : StepOrder[i] = s

StepAfter(s) ==
    IF StepIndex(s) = Len(StepOrder) THEN s ELSE StepOrder[StepIndex(s) + 1]

AxisSteps ==
    {"SteeringLeft", "SteeringRight", "ThrottlePressed", "ThrottleReleased",
     "BrakePressed", "BrakeReleased", "ClutchPressed", "ClutchReleased"}

ReleasedSteps == {"ThrottleReleased", "BrakeReleased", "ClutchReleased"}

ClutchSteps == {"ClutchPressed", "ClutchReleased"}

Called == last.op \in {"advance", "skip"}

Min2(a, b) == IF a < b THEN a ELSE b
Max2(a, b) == IF a < b THEN b ELSE a

\* the pedal binding a released step works on
PedalOf(c, s) ==
    CASE s = "ThrottleReleased" -> c.throttle
      [] s = "BrakeReleased"    -> c.brake
      [] s = "ClutchReleased"   -> c.clutch

\* C1: from Welcome every advance() moves exactly one step forward in the
\* fixed order, whatever was received or committed; at Complete advance() and
\* skip() stay at Complete; no call ever moves the wizard backwards.
C1_LinearOrder ==
    /\ last.op = "none" => step = "Welcome"
    /\ last.op = "advance" /\ last.from # "Complete" =>
          StepIndex(step) = StepIndex(last.from) + 1
    /\ Called /\ last.from = "Complete" => step = "Complete"
    /\ Called => StepIndex(step) >= StepIndex(last.from)

C1_Witness ==
    /\ last.op = "advance" /\ last.from = "ShiftDown" /\ step = "Complete"
    /\ config.shift_down # last.before.shift_down

\* C2 as stated: an advance() on an axis step at a moment when no tracked axis
\* exceeds the movement threshold leaves every binding unchanged.
C2_Original ==
    (last.op = "advance" /\ last.from \in AxisSteps /\ ~last.moved)
        => config = last.before

\* C2 amended: an advance() on an axis step at a moment when no tracked axis
\* exceeds the movement threshold, and when no earlier capture_axis_position()
\* of the step has left a captured axis pending, leaves every binding unchanged.
C2_NoCommitBelowThreshold ==
    (last.op = "advance" /\ last.from \in AxisSteps /\ ~last.moved /\ ~last.pending)
        => config = last.before

C2_Witness ==
    /\ last.op = "advance" /\ last.from = "SteeringLeft"
    /\ last.tracked /\ ~last.moved /\ ~last.pending
    /\ config = last.before

\* C3: when SteeringLeft committed L and SteeringRight commits R, the steering
\* binding has min_value = min(L,R), max_value = max(L,R), inverted = (L > R).
C3_SteeringMinMax ==
    (last.op = "advance" /\ last.from = "SteeringRight"
        /\ last.first # None /\ last.cap # None)
    => /\ config.steering # None
       /\ LET L == last.first[1]
              R == last.cap[1][4]
              s == config.steering[1]
          IN  /\ s.min_value = Min2(L, R)
              /\ s.max_value = Max2(L, R)
              /\ s.inverted = (L > R)
              /\ s.min_value <= s.max_value

C3_Witness ==
    /\ last.op = "advance" /\ last.from = "SteeringRight"
    /\ last.first = Some(1600) /\ last.cap # None /\ last.cap[1][4] = 1
    /\ config.steering # None
    /\ config.steering[1].inverted
    /\ config.steering[1].min_value = 1
    /\ config.steering[1].max_value = 1600

\* C4: with left value L and right value R committed and |L - R| >= epsilon,
\* the steering binding maps L to -1 and R to +1, for L < R and for L > R.
C4_SteeringSign ==
    (last.op = "advance" /\ last.from = "SteeringRight"
        /\ last.first # None /\ last.cap # None
        /\ Abs(last.first[1] - last.cap[1][4]) >= Epsilon)
    => /\ config.steering # None
       /\ normalize(config.steering[1], last.first[1]) = <<-1, 1>>
       /\ normalize(config.steering[1], last.cap[1][4]) = <<1, 1>>

C4_Witness ==
    /\ last.op = "advance" /\ last.from = "SteeringRight"
    /\ last.first # None /\ last.cap # None
    /\ last.first[1] - last.cap[1][4] >= Epsilon
    /\ normalize(config.steering[1], last.first[1]) = <<-1, 1>>

\* C5 as stated: the release step moves the pressed value p into min_value and
\* stores the release value r as max_value before the inversion check, so the
\* binding ends inverted exactly when p > r.
C5_Original ==
    (last.op = "advance" /\ last.from \in ReleasedSteps
        /\ last.first # None /\ last.cap # None)
    => /\ PedalOf(config, last.from) # None
       /\ PedalOf(config, last.from)[1].inverted = (last.first[1] > last.cap[1][4])

\* C5 amended: the release step keeps the pressed value p as max_value and
\* stores the release value r as min_value before the inversion check, so the
\* binding ends inverted exactly when r > p, with min_value = min(p,r) and
\* max_value = max(p,r).
C5_PedalReleased ==
    (last.op = "advance" /\ last.from \in ReleasedSteps
        /\ last.first # None /\ last.cap # None)
    => /\ PedalOf(config, last.from) # None
       /\ LET p == last.first[1]
              r == last.cap[1][4]
              b == PedalOf(config, last.from)[1]
          IN  /\ b.inverted = (r > p)
              /\ b.min_value = Min2(p, r)
              /\ b.max_value = Max2(p, r)

C5_Witness ==
    /\ last.op = "advance" /\ last.from = "ThrottleReleased"
    /\ last.first = Some(1600) /\ last.cap # None /\ last.cap[1][4] = 0
    /\ config.throttle # None
    /\ ~config.throttle[1].inverted
    /\ config.throttle[1].min_value = 0
    /\ config.throttle[1].max_value = 1600

\* C6: skip() never modifies a binding, and on ClutchPressed or
\* ClutchReleased it sets the step to ShiftUp.
C6_SkipClutch ==
    last.op = "skip" =>
       /\ config = last.before
       /\ last.from \in ClutchSteps => step = "ShiftUp"

C6_Witness ==
    /\ last.op = "skip" /\ last.from = "ClutchPressed" /\ step = "ShiftUp"
    /\ last.moved
    /\ config.clutch = None

\* C7 as stated: skip() on a step other than ClutchPressed and ClutchReleased
\* does not change the step.
C7_Original ==
    (last.op = "skip" /\ last.from \notin ClutchSteps) => step = last.from

\* C7 amended: skip() on a step other than ClutchPressed and ClutchReleased
\* moves the wizard to the following step of the order (Complete stays
\* Complete), committing nothing.
C7_SkipElsewhere ==
    (last.op = "skip" /\ last.from \notin ClutchSteps)
        => step = StepAfter(last.from) /\ config = last.before

C7_Witness ==
    /\ last.op = "skip" /\ last.from = "SteeringLeft" /\ step = "SteeringRight"
    /\ last.moved

\* C8: after every advance() and every skip(), until the next event or capture
\* call, the per-step tracking state is empty: no axis trackers, no captured
\* axis, no captured button.
C8_TrackingCleared ==
    (Called /\ last.fresh) =>
       /\ axis_trackers = <<>>
       /\ captured_axis = None
       /\ captured_button = None

C8_Witness ==
    /\ Called /\ last.fresh /\ last.tracked /\ last.pending
    /\ axis_trackers = <<>> /\ captured_axis = None /\ captured_button = None

\* C9: the advance() that moves the wizard from ShiftDown to Complete calls
\* WheelConfig::save on the profile.
C9_SaveOnReachingComplete ==
    (last.op = "advance" /\ last.from = "ShiftDown") => last.save # "none"

\* C10: is_complete() is true exactly when steering, throttle, brake, shift_up
\* and shift_down are all present, whatever clutch and the force-feedback
\* device id are.
C10_IsComplete ==
    complete_ret # None =>
       complete_ret[1] = (/\ config.steering # None
                          /\ config.throttle # None
                          /\ config.brake # None
                          /\ config.shift_up # None
                          /\ config.shift_down # None)

C10_Witness ==
    /\ complete_ret = Some(TRUE)
    /\ config.clutch = None
    /\ config.force_feedback_device = None

\* C11: advance() at ShiftUp (ShiftDown) binds shift_up (shift_down) to the
\* device and button of the most recent ButtonPressed event received since the
\* previous advance()/skip(), leaves the binding as it was when no button was
\* pressed in the step, and between calls the captured button is that most
\* recent press whatever other events (ButtonReleased among them) arrived.
C11_ShiftButton ==
    /\ ~last.fresh => captured_button = last.pressed
    /\ (last.fresh /\ last.op = "advance" /\ last.from = "ShiftUp") =>
          config.shift_up =
             IF last.pressed = None THEN last.before.shift_up
             ELSE Some([device_id |-> last.pressed[1][1],
                        device_name |-> last.pressed[1][2],
                        button_code |-> last.pressed[1][3]])
    /\ (last.fresh /\ last.op = "advance" /\ last.from = "ShiftDown") =>
          config.shift_down =
             IF last.pressed = None THEN last.before.shift_down
             ELSE Some([device_id |-> last.pressed[1][1],
                        device_name |-> last.pressed[1][2],
                        button_code |-> last.pressed[1][3]])

C11_Witness ==
    /\ last.fresh /\ last.op = "advance" /\ last.from = "ShiftDown"
    /\ last.pressed = Some(<<"wheel", DeviceName("wheel"), 5>>)
    /\ last.before.shift_down = None
    /\ config.shift_down # None
    /\ config.shift_up = None

\* the binding's ends are closer than the degenerate epsilon
Degenerate(b) ==
    /\ b.max_value - b.min_value < Epsilon
    /\ b.min_value - b.max_value < Epsilon

\* raw lies outside the interval spanned by the binding's two ends
OutsideEnds(b, raw) ==
    raw < Min2(b.min_value, b.max_value) \/ raw > Max2(b.min_value, b.max_value)

\* C12: for every binding and raw value normalize returns a value in [-1,1]
\* and normalize_trigger a value in [0,1]; a raw value beyond the ends gives an
\* end of the output range; a binding whose ends are closer than the epsilon
\* gives exactly 0 from both, whatever the raw value and the inverted flag.
C12_Range ==
    norm # NoNorm =>
       /\ norm.n # None =>
             LET r == norm.n[1] IN
             /\ r[2] > 0 /\ -r[2] <= r[1] /\ r[1] <= r[2]
             /\ Degenerate(norm.b) => r[1] = 0
             /\ (~Degenerate(norm.b) /\ OutsideEnds(norm.b, norm.raw)) =>
                   (r[1] = r[2] \/ r[1] = -r[2])
       /\ norm.t # None =>
             LET r == norm.t[1][1] IN
             /\ r[2] > 0 /\ 0 <= r[1] /\ r[1] <= r[2]
             /\ Degenerate(norm.b) => r[1] = 0
             /\ (~Degenerate(norm.b) /\ OutsideEnds(norm.b, norm.raw)) =>
                   (r[1] = r[2] \/ r[1] = 0)

C12_Witness ==
    /\ norm # NoNorm
    /\ norm.b.min_value = 1 /\ norm.b.max_value = 2 /\ norm.b.inverted
    /\ norm.raw = 2400
    /\ norm.n = Some(<<0, 1>>)
    /\ norm.t # None /\ norm.t[1][1] = <<0, 1>>

\* C13: for a binding that is not degenerate normalize_trigger gives 0 at
\* min_value and 1 at max_value when inverted is false, 1 at min_value and 0 at
\* max_value when inverted is true, and between the two ends it is monotonic
\* in the raw value.
C13_TriggerEnds ==
    (norm # NoNorm /\ norm.t # None /\ ~Degenerate(norm.b)) =>
       LET b == norm.b
           t1 == norm.t[1][1]
           t2 == norm.t[1][2]
           rising == (b.min_value < b.max_value) = ~b.inverted
       IN  /\ norm.raw = b.min_value =>
                 t1 = IF b.inverted THEN <<1, 1>> ELSE <<0, 1>>
           /\ norm.raw = b.max_value =>
                 t1 = IF b.inverted THEN <<0, 1>> ELSE <<1, 1>>
           /\ (/\ ~OutsideEnds(b, norm.raw) /\ ~OutsideEnds(b, norm.raw2)
               /\ norm.raw <= norm.raw2) =>
                 IF rising THEN t1[1] * t2[2] <= t2[1] * t1[2]
                 ELSE t1[1] * t2[2] >= t2[1] * t1[2]

C13_Witness ==
    /\ norm # NoNorm
    /\ norm.b.min_value = 0 /\ norm.b.max_value = 1600 /\ norm.b.inverted
    /\ norm.raw = 0 /\ norm.raw2 = 800
    /\ norm.t = Some(<<(<<1, 1>>), (<<1, 2>>)>>)

\* x is the rational m / 65535
IsScaled(x, m) == x[2] > 0 /\ x[1] * 65535 = m * x[2]

SingleEventPairs ==
    {[large_motor |-> <<0, 1>>, small_motor |-> <<0, 1>>],
     [large_motor |-> <<1, 1>>, small_motor |-> <<0, 1>>],
     [large_motor |-> <<1, 3>>, small_motor |-> <<1, 1>>]}

\* C16: what get_rumble() returns is the pair of the listener write that
\* finished last before the read (the default pair when none has), so both
\* fields come from one event and no older pair is returned.
C16_LastWrite ==
    rumble_ret.ret # None =>
       /\ rumble_ret.ret = rumble_ret.seen
       /\ rumble_ret.ret[1] \in SingleEventPairs

C16_Witness ==
    /\ fg = "get_rumble_return"
    /\ rumble_ret.ret = Some([large_motor |-> <<1, 3>>, small_motor |-> <<1, 1>>])
    /\ rumble_ret.seen = rumble_ret.ret
    /\ lpc = "stop_lock_rumble"

IsSyn(e) == e.type_ = "EV_SYN" /\ e.code = "SYN_REPORT"

\* the events out[j-n .. j-1] are the n field events of snapshot snap, in order
FieldsBefore(j, snap) ==
    LET n == Len(FrameFields) IN
    /\ j > n
    /\ \A i \in 1..n :
          out[j - n - 1 + i] =
             [type_ |-> FrameFields[i][1], code |-> FrameFields[i][2], snap |-> snap]

\* C17: an update() that returns Ok has written the field events of its
\* snapshot, one each, and then one SYN_REPORT, with no SYN_REPORT among them;
\* an update() that returns an error has written no SYN_REPORT; so every
\* SYN_REPORT on the descriptor directly follows the complete field events of
\* one snapshot, and no frame ends on a part of a snapshot.
C17_WholeFrames ==
    /\ (update_ret # None /\ connected) =>
          IF update_ret[1].ok
          THEN /\ out # <<>>
               /\ IsSyn(out[Len(out)])
               /\ FieldsBefore(Len(out), update_ret[1].snap)
               /\ Cardinality({j \in 1..Len(out) :
                                 IsSyn(out[j]) /\ out[j].snap = update_ret[1].snap}) = 1
          ELSE \A j \in 1..Len(out) :
                  IsSyn(out[j]) => out[j].snap # update_ret[1].snap
    /\ \A j \in 1..Len(out) : IsSyn(out[j]) => FieldsBefore(j, out[j].snap)

C17_Witness ==
    /\ update_ret = Some([snap |-> 2, ok |-> TRUE])
    /\ Len(out) > Len(FrameFields) + 4
    /\ out[4].snap = 1
    /\ \A j \in 1..Len(out) : IsSyn(out[j]) => j = Len(out)

\* position of a step of Drop in the order flag, join, destroy, close
TeardownRank(x) ==
    CASE x = "flag" -> 1 [] x = "join" -> 2 [] x = "destroy" -> 3 [] x = "close" -> 4

\* the listener thread has been started and has not ended
ListenerRunning == lpc \notin {"none", "exited"}

\* C18: Drop clears the cancellation flag, then joins the listener, then
\* destroys the uinput device, then releases the file handle, in this order;
\* the device is not destroyed and the descriptor not closed while the
\* listener is running.
C18_DropOrder ==
    /\ \A i, j \in 1..Len(teardown) :
          i < j => TeardownRank(teardown[i]) < TeardownRank(teardown[j])
    /\ \A i \in 1..Len(teardown) :
          (teardown[i] \in {"destroy", "close"} /\ connect_result = "ok") =>
             /\ i > 2
             /\ teardown[1] = "flag"
             /\ teardown[2] = "join"
    /\ \A i \in 1..Len(teardown) : teardown[i] = "join" => ~ListenerRunning
    /\ (device = "destroyed" \/ uinput_fd = "closed") => ~ListenerRunning

C18_Witness ==
    /\ teardown = <<"flag", "join", "destroy", "close">>
    /\ lpc = "exited"
    /\ device = "destroyed"
    /\ uinput_fd = "closed"

\* C19: once Drop has cleared the cancellation flag of a started listener,
\* the listener eventually ends (so the join returns), whatever events arrive.
C19_ListenerEnds ==
    (fg = "drop_join" /\ connect_result = "ok") ~> (lpc = "exited")

\* C20: when the controller is gone, after a disconnect or after a connect()
\* that failed at whatever step, the uinput descriptor and the listener's
\* duplicate are closed (or were never opened), the uinput device is
\* destroyed (or was never created), and no listener thread is running or
\* still to be joined.
C20_NothingLeft ==
    fg = "dropped" =>
       /\ uinput_fd # "open"
       /\ thread_fd # "open"
       /\ device # "created"
       /\ uinput_file = "none"
       /\ ~ListenerRunning
       /\ ff_thread_handle = "none"
       /\ connect_result = "ok" => thread_fd = "closed" /\ uinput_fd = "closed"

C20_Witness ==
    /\ fg = "dropped"
    /\ connect_result = "ok"
    /\ thread_fd = "closed"
    /\ uinput_fd = "closed"
    /\ device = "destroyed"
    /\ lhist.played

\* ------------------------------------------------------------------ relay
\* the last call handed a rumble to the relay
Applied == rcall.op \in {"apply_rumble", "process_inputs"} /\ rcall.before.available

MaxForce == IF plat = "linux" THEN I16Max ELSE DIMax

\* a motor value brought into 0 ..= 1
InUnit(p) == IF p[1] < 0 THEN Zero ELSE IF p[1] > p[2] THEN One ELSE p

\* x is the rational n/d times k with the fraction cut off
CutOff(x, n, d, k) ==
    /\ Abs(x) * d <= Abs(n) * k
    /\ Abs(n) * k < (Abs(x) + 1) * d
    /\ (x > 0 => n > 0) /\ (x < 0 => n < 0)

\* C21: the force apply_rumble commands on an available relay is (large -
\* small) times the platform's largest force, with both motor values first
\* brought into 0 ..= 1: (1, 0) gives the largest positive force (32767 on
\* evdev, 10000 on DirectInput), (0, 1) the largest negative one, (0, 0) zero,
\* and the force never leaves -max ..= max.
C21_Force ==
    (Applied /\ rcall.level # None) =>
        LET x == rcall.level[1]
            l == InUnit(rcall.large)
            m == InUnit(rcall.small)
        IN  /\ -MaxForce <= x /\ x <= MaxForce
            /\ CutOff(x, l[1] * m[2] - m[1] * l[2], l[2] * m[2], MaxForce)
            /\ (rcall.large = One /\ rcall.small = Zero) => x = MaxForce
            /\ (rcall.large = Zero /\ rcall.small = One) => x = -MaxForce
            /\ (rcall.large = Zero /\ rcall.small = Zero) => x = 0

C21_Witness ==
    /\ Applied
    /\ plat = "linux"
    /\ rcall.large = Zero
    /\ rcall.small = <<3, 2>>
    /\ rcall.level = Some(-I16Max)

\* C22: over the apply_rumble calls that returned Ok on an available relay
\* since the relay was built or stop() was last called, the effect object was
\* created at most once and started exactly once; the later calls only update
\* the magnitude of that effect.
C22_CreatedAndStartedOnce ==
    (holder # "none" /\ ff.available /\ run.applied >= 1) =>
        /\ run.created <= 1
        /\ run.started = 1

\* the update attempts of the last call, and those that failed
Attempts == Count(rcall.log, "update") + Count(rcall.log, "update_failed")
Failures == Count(rcall.log, "update_failed")

\* C23: when the update of the effect inside apply_rumble fails, that call
\* re-acquires the device exactly once and then retries the update exactly
\* once: never no retry, never more than one.
C23_OneRetry ==
    (Applied /\ Failures >= 1) =>
        /\ Count(rcall.log, "acquire") = 1
        /\ Attempts = 2

\* C24: when the update and its retry both fail, apply_rumble returns an
\* error to its caller, the failure is logged, and the relay stays Active: it
\* is still available and still holds the effect, so the next apply_rumble
\* attempts the update again.
C24_FailureReported ==
    (Applied /\ Failures >= 1 /\ Failures = Attempts) =>
        /\ rcall.ret = "err"
        /\ rcall.op = "process_inputs" => rcall.logged
        /\ ff.available
        /\ ff.effect # None
        /\ rcall.before.effect # None => ff.effect = rcall.before.effect

\* C25: stop() halts playback without destroying the effect object: after
\* stop() the relay holds the effect it held before, and the next
\* apply_rumble uses it without creating one.
C25_StopKeepsEffect ==
    /\ (rcall.op = "stop" /\ rcall.before.available) =>
           ff.effect = rcall.before.effect
    /\ (Applied /\ rcall.prior = "stop" /\ rcall.ret = "ok") =>
           Created(rcall.log) = 0

\* C26: stop() is idempotent: a second stop() right after a stop() succeeds
\* and leaves the relay as the first one left it; stop() on an unavailable
\* relay, or on a relay whose effect was never started, succeeds and changes
\* nothing.
C26_StopIdempotent ==
    /\ (rcall.op = "stop" /\ rcall.prior = "stop") =>
           (rcall.ret = "ok" /\ ff = rcall.before)
    /\ (rcall.op = "stop" /\ ~rcall.before.available) =>
           (rcall.ret = "ok" /\ ff = rcall.before /\ rcall.log = <<>>)
    /\ (rcall.op = "stop" /\ rcall.prior = "new" /\ ~rcall.before.effect_playing) =>
           (rcall.ret = "ok" /\ ff = rcall.before)

\* the place of a teardown step in the order stop the effect, unload it,
\* release the device, release the DirectInput object, destroy the window
ReleaseRank(x) ==
    CASE x \in {"stop_effect", "stop_effect_failed"} -> 1
      [] x \in {"erase_effect", "release_effect"} -> 2
      [] x \in {"unacquire", "release_device"} -> 3
      [] x = "release_dinput" -> 4
      [] x = "destroy_window" -> 5
      [] OTHER -> 6

\* C27: whenever a relay is torn down (dropped by its holder, dropped by
\* finish_calibration, dropped inside a failed new(), replaced by a newer
\* relay), the steps come in the order stop the effect, unload the effect,
\* release the device handle, release the driver context, release the helper
\* window; everything the relay held is released, and nothing is released
\* before a resource that comes earlier in that order. This covers relays
\* whose initialisation failed part-way and a stop() that returns an error.
C27_TeardownOrder ==
    LET t == rcall.teardown
        r == rcall.torn
    IN  /\ \A i \in 1..Len(t) : \A j \in 1..Len(t) :
               i < j => ReleaseRank(t[i]) <= ReleaseRank(t[j])
        /\ r.effect # None =>
               /\ Count(t, "erase_effect") = 1
               /\ ReleaseRank(t[1]) = 1
        /\ r.device => Count(t, "release_device") = 1
        /\ r.dinput => Count(t, "release_dinput") = 1
        /\ r.message_window => Count(t, "destroy_window") = 1

C27_Witness ==
    /\ plat = "windows"
    /\ rcall.op = "drop"
    /\ rcall.torn.effect # None
    /\ rcall.torn.message_window
    /\ rcall.teardown = <<"stop_effect_failed", "erase_effect", "release_effect",
                          "unacquire", "release_device", "release_dinput",
                          "destroy_window">>

\* the last call built a relay
Built == rcall.op \in {"new", "finish_calibration"}

\* C28: when a step of the acquisition (device, data format, cooperative
\* level, auto-center, acquire, effect) fails, everything the earlier steps
\* acquired is released before the acquisition returns: the relay it leaves
\* holds no device handle, no driver context and no effect, and is not marked
\* available.
C28_RolledBack ==
    (Built /\ (rcall.ret = "err" \/ ~rcall.built.available)) =>
        /\ ~rcall.built.device
        /\ ~rcall.built.dinput
        /\ rcall.built.effect = None
        /\ ~rcall.built.available

\* new(None) found no device that can play force feedback
NoneFound ==
    /\ Built
    /\ rcall.path = None
    /\ IF plat = "linux"
       THEN /\ Count(rcall.log, "create_effect") = 0
            /\ Count(rcall.log, "create_effect_failed") = 0
       ELSE rcall.built.dinput /\ ~rcall.built.device

C31_OneController ==
    /\ app.mode = "Calibrating" => ~app.virtual_controller
    /\ app.mode = "none" => ~app.virtual_controller
    /\ rcall.vcs <= 1
    /\ (rcall.op = "start_calibration") => ~app.virtual_controller

\* a second controller was created by finish_calibration() after a Recalibrate
\* that followed frames served by the first one
C31_Witness ==
    /\ rcall.op = "finish_calibration"
    /\ rcall.prior = "start_calibration"
    /\ app.updates > 0
    /\ app.virtual_controller
    /\ rcall.vcs = 1

\* C32: a new ForceFeedbackDevice is never constructed while a previously
\* constructed one is still alive: when ForceFeedbackDevice::new returns a
\* relay, it is the only relay in existence.
C32_OneRelay ==
    rcall.op \in {"new", "finish_calibration"} => rcall.alive <= 1

\* C33: every frame in Running mode with a connected virtual controller calls
\* update(), then get_rumble(), then apply_rumble on the relay, unless the
\* search for an actuator found none; this holds after finish_calibration()
\* and after a start from a complete saved profile alike.
C33_RelayStep ==
    (/\ rcall.op = "process_inputs"
     /\ app.mode = "Running"
     /\ Len(rcall.steps) >= 2
     /\ rcall.steps[1] = "update"
     /\ rcall.steps[2] = "get_rumble")
    => \/ rcall.steps = <<"update", "get_rumble", "apply_rumble">>
       \/ app.probe = "unavailable"

\* C38: on Linux, effect_playing = TRUE implies that constant_effect is
\* present, after any sequence of apply_rumble and stop calls, and an
\* apply_rumble that creates the effect and returns Ok has also started it.
C38_PlayingHasEffect ==
    plat = "linux" =>
        /\ ff.effect_playing => ff.effect # None
        /\ (/\ rcall.op \in {"apply_rumble", "process_inputs"}
            /\ rcall.ret = "ok"
            /\ Created(rcall.log) = 1)
           => Started(rcall.log) = 1


\* ----------------------------------------------------- wizard, second part

\* the binding the step s writes, in the profile c
BindingOf(c, s) ==
    CASE s \in {"SteeringLeft", "SteeringRight"} -> c.steering
      [] s \in {"ThrottlePressed", "ThrottleReleased"} -> c.throttle
      [] s \in {"BrakePressed", "BrakeReleased"} -> c.brake
      [] OTHER -> c.clutch

\* the last call was an advance() on a first-half step that committed
FirstHalfCommit ==
    /\ last.op = "advance"
    /\ last.from \in FirstHalfSteps
    /\ last.cap # None

\* the binding that advance() wrote names the axis k = <<device_id, axis_code,
\* value>> and holds its value
Names(b, k) ==
    /\ b # None
    /\ b[1].device_id = k[1]
    /\ b[1].axis_code = k[2]
    /\ b[1].min_value = k[3]
    /\ b[1].max_value = k[3]

\* C34 as stated: the binding committed at a first-half axis step names a
\* tracked (device, axis) whose |latest - baseline| is maximal among the axes
\* tracked in that step, and the committed value is that axis's latest value.
C34_Original ==
    FirstHalfCommit =>
        \E k \in last.best : Names(BindingOf(config, last.from), k)

\* C34: when at the moment of advance() on a first-half axis step some
\* tracked axis has moved more than the threshold, the binding committed
\* names a tracked (device, axis) whose |latest - baseline| is maximal among
\* the axes tracked in that step, with that axis's latest value; otherwise
\* the binding, if one is committed, is the axis an earlier
\* capture_axis_position() call of the step left pending.
C34_MostMoved ==
    FirstHalfCommit =>
        IF last.moved
        THEN \E k \in last.best : Names(BindingOf(config, last.from), k)
        ELSE last.pending

\* two axes were over the threshold, one moved more, and it was committed
C34_Witness ==
    /\ FirstHalfCommit
    /\ last.moved
    /\ last.rival
    /\ \E k \in last.best : Names(BindingOf(config, last.from), k)


\* steps whose advance() completes a binding the first half created
SecondHalfSteps ==
    {"SteeringRight", "ThrottleReleased", "BrakeReleased", "ClutchReleased"}

\* the last call was an advance() on a second-half step that wrote a value
\* into the binding of the first half
SecondHalfCommit ==
    /\ last.op = "advance"
    /\ last.from \in SecondHalfSteps
    /\ last.cap # None
    /\ BindingOf(last.before, last.from) # None

\* C35: the value a second-half step commits was read from the (device, axis)
\* that the first half bound, and the step leaves device_id, device_name and
\* axis_code of the binding as they were.
C35_SameAxis ==
    SecondHalfCommit =>
        LET old == BindingOf(last.before, last.from)[1]
            new_binding == BindingOf(config, last.from)[1]
        IN  /\ last.cap[1][1] = old.device_id
            /\ last.cap[1][3] = old.axis_code
            /\ new_binding.device_id = old.device_id
            /\ new_binding.device_name = old.device_name
            /\ new_binding.axis_code = old.axis_code


\* C36: after a pressed step commits the value p and the released step that
\* follows commits r with |p - r| >= epsilon, normalize_trigger of the pedal
\* binding gives 1 at p and 0 at r, whether p > r or p < r.
C36_PedalDirection ==
    (/\ last.op = "advance" /\ last.from \in ReleasedSteps
     /\ last.first # None /\ last.cap # None
     /\ Abs(last.first[1] - last.cap[1][4]) >= Epsilon)
    => /\ PedalOf(config, last.from) # None
       /\ normalize_trigger(PedalOf(config, last.from)[1], last.first[1]) = <<1, 1>>
       /\ normalize_trigger(PedalOf(config, last.from)[1], last.cap[1][4]) = <<0, 1>>

\* a pedal whose raw value falls when pressed: p = 0 < r = 1600
C36_Witness ==
    /\ last.op = "advance" /\ last.from = "BrakeReleased"
    /\ last.first = Some(0) /\ last.cap # None /\ last.cap[1][4] = 1600
    /\ config.brake # None
    /\ config.brake[1].inverted
    /\ normalize_trigger(config.brake[1], 0) = <<1, 1>>
    /\ normalize_trigger(config.brake[1], 1600) = <<0, 1>>


\* the axis bindings present in the profile c
AxisBindings(c) ==
    {b \in {c.steering, c.throttle, c.brake, c.clutch} : b # None}

\* C37: whenever the wizard is in step Complete, the profile is complete and
\* every axis binding present in it, the clutch included, has min_value
\* different from max_value.
C37_CompleteIsComplete ==
    step = "Complete" =>
        /\ is_complete(config)
        /\ \A b \in AxisBindings(config) : b[1].min_value # b[1].max_value


\* ------------------------------------------- listener and the game's view

\* no event is being handled by the listener
Quiet == ev = None

\* the rumble state that the effect e stands for
Scaled(e) ==
    [large_motor |-> Rat(e.strong_magnitude, U16Max),
     small_motor |-> Rat(e.weak_magnitude, U16Max)]

\* C39: between events the shared rumble state equals the magnitudes, as last
\* uploaded, of an effect the game has playing, and {0,0} when none is
\* playing: a re-upload of a playing effect updates it, an erase of the
\* playing effect zeroes it, a stop event for one id leaves it alone while
\* another effect is playing.
C39_RumbleFollowsGame ==
    Quiet =>
        IF lhist.playing = {} THEN rumble_state = DefaultRumble
        ELSE \E i \in lhist.playing :
                /\ i \in DOMAIN ff_effects
                /\ rumble_state = Scaled(ff_effects[i])

\* the listener is inside a handshake: BEGIN has succeeded, END is to come
InHandshake == lpc \in {"upload_store", "upload_end", "erase_remove", "erase_end"}

\* C40: every request whose BEGIN ioctl succeeded gets exactly one END ioctl
\* before the listener reads the next event or exits, and between events an
\* id is in the effect table exactly when the last request handled for it
\* was a rumble upload.
C40_Handshake ==
    /\ lhist.open = IF InHandshake THEN 1 ELSE 0
    /\ Quiet => \A i \in EffectIds :
                   (i \in DOMAIN ff_effects) <=> (lhist.req[i] = "rumble")

\* between events: the last request handled for effect 0 was an erase, the
\* one for effect 1 a rumble upload, and effect 1 has been played
C40_Witness ==
    /\ Quiet
    /\ lpc = "read"
    /\ lhist.open = 0
    /\ lhist.req[0] = "erase"
    /\ lhist.req[1] = "rumble"
    /\ DOMAIN ff_effects = {1}
    /\ lhist.playing = {1}

====
